---------------------------- MODULE Spec2Model ----------------------------
(***************************************************************************)
(* Model of the process supervisor of laplace-core                         *)
(* (src/backend/core/minecraft.ts, class MinecraftServer).                 *)
(*                                                                         *)
(* The supervisor runs on one cooperative scheduling thread.  One step of  *)
(* the model is one task of that thread: a public operation up to its      *)
(* first real suspension (network send, timer), the continuation of a      *)
(* suspended operation, a timer callback, or an event handler of the child *)
(* process ('close', 'error', stdout data).  A handler is threaded through *)
(* a record s of all fields it may touch (Cur) and committed at the end.   *)
(*                                                                         *)
(* Time is not modelled: a pending timer may fire at any later step.  The  *)
(* two 500 ms polling loops (stop: i < 20, restart: checks < 20) keep no   *)
(* counter in the model; each wake-up is told whether the limit of 20      *)
(* waits has been reached (expired).                                       *)
(***************************************************************************)
EXTENDS Integers, Sequences, FiniteSets, Bags, TLC

(***************************************************************************)
(* Bounds of the model.                                                    *)
(***************************************************************************)
NumServers == 2          \* instance directories that may exist under servers/
MaxProcs == 2            \* child processes tracked at once (live or being reaped)
MaxRespawnTimers == 1    \* crash-respawn timers pending at once
MaxCalls == 1            \* stop()/restart() calls suspended at once
MaxRestartTimers == 1    \* restart settling timers pending at once
MaxOverlap == 2          \* restart() calls under way at once, where they overlap
MaxSegments == 3         \* segments of a path given to validatePath
MaxRconChains == 1       \* control-channel connect chains pending at once
MaxBackups == 2          \* snapshot directories under backups/
MaxTime == 2             \* distinct creation times of snapshots
MaxVersion == 1          \* distinct contents of an instance's working tree
MaxSaves == 2            \* saveSettings calls pending at once, and their payloads
FullLen == 2             \* write() calls it takes to write a descriptor file
MaxPlayers == 2          \* uuids that appear in the player lists
MaxEntries == 2          \* entries of usercache.json and of ops.json
MaxListed == 1           \* entries of banned-players.json and of whitelist.json
MaxRosterCalls == 1      \* getPlayers calls awaiting the answer to 'list'
MaxOnline == 2           \* names in an answer to 'list'
MaxText == 3             \* characters of a response
MaxCmdCalls == 1         \* executeCommand calls awaiting their answer
MAX_LOGS == 3            \* this.MAX_LOGS (500 in the source), scaled down
MaxMsg == 3              \* parts of a raw message
MaxProduced == 4         \* log entries produced in a run
MaxUuids == 6            \* values uuidv4() gives out in a run
MaxUsers == 3            \* accounts at a time
Now == 1                 \* Date.now() while the answer is processed

(***************************************************************************)
(* Program constants.                                                      *)
(***************************************************************************)
MAX_CRASH_RESPAWNS == 3  \* handleCrash: crashCount <= 3
RCON_MAX_ATTEMPTS == 5   \* connectRcon: attempts > 5 gives up

ServerIds == 1..NumServers
Slots == 1..MaxProcs

\* Exit codes seen by the 'close' handler.  NullCode is the null a process
\* killed by a signal reports; SpawnErrCode the negative errno of a failed spawn.
NullCode == -1
SpawnErrCode == -2
ExitCodes == {0, 1, 130, 143, NullCode}

\* this.config === null
NoConfig == [id |-> 0, autoRestart |-> FALSE]

VARIABLES
    status,           \* this.status
    process,          \* this.process: 0 (null) or the slot of the ChildProcess
    rcon,             \* this.rcon !== null
    config,           \* this.config (NoConfig when null)
    serverDir,        \* this.serverDir: 0 ('') or the instance directory
    crashCount,       \* this.crashCount
    intentionToStop,  \* this.intentionToStop
    statusInterval,   \* this.statusInterval !== null
    procs,            \* the child processes: slot -> "none" | "alive" | "failed" | "errored"
    respawnTimers,    \* pending setTimeout(..., 5000) callbacks of handleCrash
    restartTimers,    \* pending setTimeout(..., 2000) callbacks of restart
    rconChains,       \* bag of pending connectRcon steps
    calls,            \* bag of suspended stop()/restart() calls
    disk,             \* servers/<id>: whether the directory (with its descriptor)
                      \* exists, whether it holds the jar, the descriptor's autoRestart
    tree,             \* the other content of servers/<id>, as a version number
    backups,          \* backups/<id>: the snapshot directories [id, time, content]
    descFile,         \* laplace.server.json of the selected instance, byte level:
                      \* [exists, desc, len], complete when len = FullLen
    tmpFile,          \* laplace.server.json.tmp, likewise
    savePending,      \* payloads of the saveSettings calls received and not yet run
    savePc,           \* "idle", or "write" while writeJsonAtomic is between system calls
    observed,         \* what a reader of laplace.server.json last read
    playerFiles,      \* usercache.json, ops.json, banned-players.json and
                      \* whitelist.json of the selected instance: lists of uuids
    onlinePlayers,    \* this.onlinePlayers
    rosterCalls,      \* getPlayers calls suspended at await this.rcon.send('list')
    returned,         \* what getPlayers last returned: [live, roster], or NoRoster
    cmdCalls,         \* executeCommand calls suspended at await this.rcon.send(cmd)
    lastResponse,     \* the text the session answered to the last command
    lastReturn,       \* how executeCommand last ended: [kind, text]
    logs,             \* this.logs
    produced,         \* the entries emitted as 'log' events so far
    propsFile,        \* server.properties of the selected instance: the rev of the payload it was written from
    saveResult,       \* the last saveSettings call: [outcome, config, desc, props], the last three as they were before it
    users,            \* this.users of the User registry, in array order
    nextUuid,         \* how many values uuidv4() has given out, plus one
    stopNoted,        \* stop() has set intentionToStop since the pending respawn was scheduled
    activeServer,     \* activeServer of the panel's configuration file: <<>> (null) or a directory name
    requestedPath,    \* the path last given to validatePath, as segments
    validated         \* what validatePath did with it: [result, target, active]

vars == <<status, process, rcon, config, serverDir, crashCount, intentionToStop,
          statusInterval, procs, respawnTimers, restartTimers,
          rconChains, calls, disk, tree, backups,
          descFile, tmpFile, savePending, savePc, observed,
          playerFiles, onlinePlayers, rosterCalls, returned,
          cmdCalls, lastResponse, lastReturn,
          logs, produced,
          propsFile, saveResult,
          users, nextUuid,
          stopNoted,
          activeServer, requestedPath, validated>>

\* The descriptor file at byte level is written by saveSettings only.
saveVars == <<descFile, tmpFile, savePending, savePc, observed>>

\* The roster is read and written by getPlayers only.
rosterVars == <<playerFiles, onlinePlayers, rosterCalls, returned>>

\* Commands are sent, answered and returned by executeCommand only.
cmdVars == <<cmdCalls, lastResponse, lastReturn>>

\* The log buffer and the stream of 'log' events change in log() only.
logVars == <<logs, produced>>

\* The properties file and the outcome of a call are set by saveSettings only.
settingsVars == <<propsFile, saveResult>>

\* The accounts change in the operations of class User only.
userVars == <<users, nextUuid>>

\* What was asked of the supervisor while a respawn was pending.
respawnVars == <<stopNoted>>

\* The file API: the panel's configuration and the last path validated.
pathVars == <<activeServer, requestedPath, validated>>

\* The fields a handler works on, and what it hands back: the 'log' and
\* 'status' events it emitted, in order, and whether it returned ("ok") or
\* threw ("throw").
Cur == [status |-> status, process |-> process, rcon |-> rcon, config |-> config,
        serverDir |-> serverDir, crashCount |-> crashCount,
        intentionToStop |-> intentionToStop, statusInterval |-> statusInterval,
        procs |-> procs, respawnTimers |-> respawnTimers,
        restartTimers |-> restartTimers, rconChains |-> rconChains, calls |-> calls,
        disk |-> disk, tree |-> tree, backups |-> backups,
        emitted |-> <<>>, result |-> "ok"]

Throw(s) == [s EXCEPT !.result = "throw"]

CommitFields(s) ==
    /\ status' = s.status
    /\ process' = s.process
    /\ rcon' = s.rcon
    /\ config' = s.config
    /\ serverDir' = s.serverDir
    /\ crashCount' = s.crashCount
    /\ intentionToStop' = s.intentionToStop
    /\ statusInterval' = s.statusInterval
    /\ procs' = s.procs
    /\ respawnTimers' = s.respawnTimers
    /\ restartTimers' = s.restartTimers
    /\ rconChains' = s.rconChains
    /\ calls' = s.calls
    /\ disk' = s.disk
    /\ tree' = s.tree
    /\ backups' = s.backups
    /\ UNCHANGED saveVars
    /\ UNCHANGED rosterVars
    /\ UNCHANGED cmdVars
    /\ UNCHANGED logVars
    /\ UNCHANGED settingsVars
    /\ UNCHANGED userVars
    /\ UNCHANGED pathVars

Commit(s) ==
    /\ CommitFields(s)
    /\ UNCHANGED respawnVars
    /\ UNCHANGED pathVars

(***************************************************************************)
(* Events and the log.                                                     *)
(***************************************************************************)
StatusEvent(st) == [kind |-> "status", type |-> st, msg |-> ""]
LogEntry(msg, type) == [kind |-> "log", type |-> type, msg |-> msg]

\* log(): the entry is pushed and emitted (the messages of the supervisor are
\* never empty after cleaning).
Log(s, msg, type) == [s EXCEPT !.emitted = Append(@, LogEntry(msg, type))]
LogSystem(s, msg) == Log(s, msg, "info")
LogError(s, msg) == Log(s, msg, "error")

StartStatusPoller(s) == [s EXCEPT !.statusInterval = TRUE]
StopStatusPoller(s) == [s EXCEPT !.statusInterval = FALSE]

UpdateState(s, newState) ==
    LET s1 == [s EXCEPT !.status = newState,
                        !.emitted = Append(@, StatusEvent(newState))]
    IN  IF newState = "ONLINE" THEN StartStatusPoller(s1)
        ELSE IF newState \in {"OFFLINE", "CRASHED", "STOPPING"} THEN StopStatusPoller(s1)
        ELSE s1

\* Fault: running told from the child handle, not from the state.
GetStatusByProcess(s) == [running |-> s.process # 0, status |-> s.status]

\* getStatus(): running and status (the id, name and start time are not
\* derived from the lifecycle state).
GetStatus(s) ==
    [running |-> s.status = "ONLINE" \/ s.status = "STARTING" \/ s.status = "RESTARTING",
     status |-> s.status]

\* selectServer: throws unless the directory and its descriptor exist.
SelectServerOk(s, id) == id \in ServerIds /\ s.disk[id].exists
SelectServer(s, id) ==
    [s EXCEPT !.config = [id |-> id, autoRestart |-> s.disk[id].autoRestart],
              !.serverDir = id,
              !.emitted = Append(@, StatusEvent(s.status))]

\* getPlayers() is called (the roster aggregation starts).
RosterEvent == [kind |-> "roster", type |-> "poll", msg |-> ""]

\* Fault: a tick of the status poller that does not look at this.status.
OnPollTickAnyState(s) ==
    [s EXCEPT !.emitted = Append(@, RosterEvent)]

\* A tick of the setInterval of startStatusPoller:
\* if (this.status === 'ONLINE') this.getPlayers().catch(() => {}).
\* What getPlayers goes on to do touches the roster only; its failure is
\* swallowed by the catch.
OnPollTick(s) ==
    IF s.status = "ONLINE"
    THEN [s EXCEPT !.emitted = Append(@, RosterEvent)]
    ELSE s

PollTick ==
    /\ statusInterval
    /\ Commit(OnPollTick(Cur))

(***************************************************************************)
(* spawnProcess                                                            *)
(***************************************************************************)
HasFreeSlot(s) == \E p \in Slots : s.procs[p] = "none"
FreeSlot(s) == CHOOSE p \in Slots :
                  s.procs[p] = "none" /\ \A q \in Slots : q < p => s.procs[q] # "none"

\* fs.existsSync(path.join(this.serverDir, this.config.jarFile))
JarExists(s) ==
    /\ s.serverDir \in ServerIds
    /\ s.disk[s.serverDir].exists
    /\ s.disk[s.serverDir].jar

\* Whether spawnProcess gets as far as spawn().
ReachesSpawn(s) == s.config # NoConfig /\ JarExists(s)

SpawnOutcomes == {"ok", "throw", "error"}

\* outcome: spawn() returns a running child ("ok"), throws ("throw"), or
\* returns a child that fails to launch and reports 'error' later ("error").
\* Fault: spawnProcess without the fs.existsSync check of the jar.
SpawnProcessNoJarCheck(s, outcome) ==
    IF s.config = NoConfig THEN s
    ELSE
      LET s1 == LogSystem(UpdateState(s, "STARTING"), "Booting core")
          p == FreeSlot(s1)
      IN  CASE outcome = "throw" ->
                 UpdateState(LogError(s1, "Spawn Exception"), "CRASHED")
            [] outcome = "ok" ->
                 [s1 EXCEPT !.process = p, !.procs[p] = "alive"]
            [] outcome = "error" ->
                 [s1 EXCEPT !.process = p, !.procs[p] = "failed"]

SpawnProcess(s, outcome) ==
    IF s.config = NoConfig THEN s
    ELSE
      LET s1 == LogSystem(UpdateState(s, "STARTING"), "Booting core")
      IN  IF ~JarExists(s1)
          THEN UpdateState(LogError(s1, "FATAL: Server jar not found"), "CRASHED")
          ELSE
            LET p == FreeSlot(s1)
            IN  CASE outcome = "throw" ->
                       UpdateState(LogError(s1, "Spawn Exception"), "CRASHED")
                  [] outcome = "ok" ->
                       [s1 EXCEPT !.process = p, !.procs[p] = "alive"]
                  [] outcome = "error" ->
                       [s1 EXCEPT !.process = p, !.procs[p] = "failed"]

(***************************************************************************)
(* loadAndStart                                                            *)
(***************************************************************************)
\* Fault: loadAndStart without `this.crashCount = 0`.
LoadAndStartBodyKeepsCount(s, id, outcome) ==
    LET s1 == SelectServer(s, id)
        s2 == [s1 EXCEPT !.intentionToStop = FALSE]
        s3 == LogSystem(UpdateState(s2, "STARTING"), "Start command received")
    IN  SpawnProcess(s3, outcome)

LoadAndStartBody(s, id, outcome) ==
    LET s1 == SelectServer(s, id)
        s2 == [s1 EXCEPT !.crashCount = 0, !.intentionToStop = FALSE]
        s3 == LogSystem(UpdateState(s2, "STARTING"), "Start command received")
    IN  SpawnProcess(s3, outcome)

\* Fault: loadAndStart without the check of this.status.
LoadAndStartCallAnyState(s, id, outcome) ==
    IF ~SelectServerOk(s, id) THEN Throw(s)
    ELSE LoadAndStartBody(s, id, outcome)

LoadAndStartCall(s, id, outcome) ==
    IF s.status # "OFFLINE" /\ s.status # "CRASHED" THEN Throw(s)
    ELSE IF ~SelectServerOk(s, id) THEN Throw(s)
    ELSE LoadAndStartBody(s, id, outcome)

\* Whether the call gets as far as spawn(): the model then needs a free slot.
LoadAndStartSpawns(s, id) ==
    /\ s.status \in {"OFFLINE", "CRASHED"}
    /\ SelectServerOk(s, id)
    /\ ReachesSpawn(SelectServer(s, id))

LoadAndStart(id, outcome) ==
    /\ IF LoadAndStartSpawns(Cur, id) THEN HasFreeSlot(Cur) ELSE outcome = "ok"
    /\ Commit(LoadAndStartCall(Cur, id, outcome))

(***************************************************************************)
(* cleanup, handleCrash, the 'close' handler                               *)
(***************************************************************************)
Cleanup(s) ==
    [StopStatusPoller(s) EXCEPT !.rcon = FALSE, !.process = 0]

\* this.config?.autoRestart !== false
AutoRestartOn(s) == s.config = NoConfig \/ s.config.autoRestart

HandleCrash(s) ==
    LET s1 == [s EXCEPT !.crashCount = @ + 1]
    IN  IF s1.crashCount <= MAX_CRASH_RESPAWNS /\ AutoRestartOn(s1)
        THEN [LogError(s1, "Server crashed! Auto-restarting")
                EXCEPT !.respawnTimers = @ + 1]
        ELSE LogError(s1, "Max crash attempts reached")

\* Fault: only exit code 0 counts as a clean exit.
BenignCodeZeroOnly(code) == code = 0

\* code !== 0 && code !== 130 && code !== 143, negated
BenignCode(code) == code \in {0, 130, 143}

\* process.on('close') of the child in slot p
OnClose(s, p, code) ==
    LET s1 == Cleanup(LogSystem([s EXCEPT !.procs[p] = "none"], "Process exited"))
    IN  IF ~s1.intentionToStop /\ s1.status # "RESTARTING" /\ ~BenignCode(code)
        THEN HandleCrash(UpdateState(s1, "CRASHED"))
        ELSE IF s1.status # "RESTARTING" THEN UpdateState(s1, "OFFLINE")
        ELSE s1

\* A running child may exit with any code; a child that failed to launch
\* closes with the errno of the failure.
CanClose(s, p, code) ==
    \/ s.procs[p] = "alive" /\ code \in ExitCodes
    \/ s.procs[p] = "errored" /\ code = SpawnErrCode

ProcessClose(p, code) ==
    /\ CanClose(Cur, p, code)
    /\ OnClose(Cur, p, code).respawnTimers <= MaxRespawnTimers
    /\ Commit(OnClose(Cur, p, code))

\* the setTimeout callback of handleCrash
OnRespawnTimer(s, outcome) ==
    LET s1 == [s EXCEPT !.respawnTimers = @ - 1]
    IN  IF ~s1.intentionToStop THEN SpawnProcess(s1, outcome) ELSE s1

RespawnTimer(outcome) ==
    /\ respawnTimers > 0
    /\ IF ~intentionToStop /\ ReachesSpawn(Cur)
       THEN HasFreeSlot(Cur)
       ELSE outcome = "ok"
    /\ Commit(OnRespawnTimer(Cur, outcome))

(***************************************************************************)
(* The child's 'error' event and its output                                *)
(***************************************************************************)
\* process.on('error'): the handle stays in this.process.
OnSpawnError(s, p) ==
    UpdateState(LogError([s EXCEPT !.procs[p] = "errored"],
                         "FATAL: Failed to spawn Java process"), "CRASHED")

SpawnError(p) ==
    /\ procs[p] = "failed"
    /\ Commit(OnSpawnError(Cur, p))

\* connectRcon(attempts): arms the 3 s timer of one connection attempt.
ConnectRcon(s, attempts) ==
    IF s.rcon \/ s.config = NoConfig THEN s
    ELSE IF attempts > RCON_MAX_ATTEMPTS THEN s
    ELSE [s EXCEPT !.rconChains = @ (+) SetToBag({[attempts |-> attempts, pc |-> "timer"]})]

\* stdout 'data' carrying a readiness line ("Done ... !" or "Listening on port").
OnReady(s) ==
    LET s1 == LogSystem(s, "stdout")
    IN  IF s1.status # "ONLINE"
        THEN ConnectRcon(UpdateState(s1, "ONLINE"), 0)
        ELSE s1

ReadySignal(p) ==
    /\ procs[p] = "alive"
    /\ BagCardinality(OnReady(Cur).rconChains) <= MaxRconChains
    /\ Commit(OnReady(Cur))

\* the 3 s timer of connectRcon fires: Rcon.connect is started
OnRconTimer(s, c) ==
    LET s1 == [s EXCEPT !.rconChains = @ (-) SetToBag({c})]
    IN  IF s1.config = NoConfig THEN s1
        ELSE [s1 EXCEPT !.rconChains = @ (+) SetToBag({[c EXCEPT !.pc = "connect"]})]

RconTimer(c) ==
    /\ BagIn(c, rconChains) /\ c.pc = "timer"
    /\ Commit(OnRconTimer(Cur, c))

\* Rcon.connect settles: this.rcon is assigned, or the next attempt is armed.
OnRconConnected(s, c, ok) ==
    LET s1 == [s EXCEPT !.rconChains = @ (-) SetToBag({c})]
    IN  IF ok
        THEN LogSystem([s1 EXCEPT !.rcon = TRUE], "RCON channel established")
        ELSE ConnectRcon(IF c.attempts > 2 THEN LogError(s1, "RCON connection retry")
                         ELSE s1,
                         c.attempts + 1)

\* A connection can be accepted only while some child process runs.
RconConnected(c, ok) ==
    /\ BagIn(c, rconChains) /\ c.pc = "connect"
    /\ ok => \E p \in Slots : procs[p] = "alive"
    /\ Commit(OnRconConnected(Cur, c, ok))

(***************************************************************************)
(* stop and restart                                                        *)
(***************************************************************************)
\* this.process.kill(signal): the signal is sent; when the child exits is up
\* to the child (ProcessClose).
KillEvent(sig) == [kind |-> "kill", type |-> sig, msg |-> ""]
Kill(s, sig) == [s EXCEPT !.emitted = Append(@, KillEvent(sig))]

Suspend(s, c) == [s EXCEPT !.calls = @ (+) SetToBag({c})]
Resume(s, c) == [s EXCEPT !.calls = @ (-) SetToBag({c})]

\* restart() at the head of while (this.process && checks < 20), and past it.
RestartPoll(s, expired) ==
    IF s.process # 0 /\ ~expired
    THEN Suspend(s, [op |-> "restart", pc |-> "poll"])
    ELSE IF s.config # NoConfig
         THEN [s EXCEPT !.restartTimers = @ + 1]
         ELSE s

\* stop() returns: a client's call is over, restart() goes on to its loop.
StopReturns(s, op) == IF op = "restart" THEN RestartPoll(s, FALSE) ELSE s

\* stop() at the head of for (i < 20) { if (!this.process) break; ... }, and
\* past it.
StopPoll(s, op, expired) ==
    IF ~expired /\ s.process # 0
    THEN Suspend(s, [op |-> op, pc |-> "stopPoll"])
    ELSE IF s.process # 0
         THEN StopReturns(Kill(LogSystem(s, "Force killing process"), "SIGKILL"), op)
         ELSE StopReturns(s, op)

\* Fault: stop without `if (this.status === 'OFFLINE') return`.
StopCallNoEarlyReturn(s, op) ==
    LET s1 == [s EXCEPT !.intentionToStop = TRUE]
        s2 == LogSystem(UpdateState(s1, "STOPPING"), "Stop command received")
    IN  IF s2.rcon
        THEN Suspend(s2, [op |-> op, pc |-> "send"])
        ELSE IF s2.process # 0
             THEN StopReturns(Kill(s2, "SIGTERM"), op)
             ELSE StopReturns(s2, op)

\* stop(actor), called by a client (op = "stop") or by restart (op = "restart"),
\* up to its first suspension.
StopCall(s, op) ==
    IF s.status = "OFFLINE" THEN StopReturns(s, op)
    ELSE
      LET s1 == [s EXCEPT !.intentionToStop = TRUE]
          s2 == LogSystem(UpdateState(s1, "STOPPING"), "Stop command received")
      IN  IF s2.rcon
          THEN Suspend(s2, [op |-> op, pc |-> "send"])
          ELSE IF s2.process # 0
               THEN StopReturns(Kill(s2, "SIGTERM"), op)
               ELSE StopReturns(s2, op)

\* The model's caps on suspended calls and pending restart timers.
Bounded(s) ==
    /\ BagCardinality(s.calls) <= MaxCalls
    /\ s.restartTimers <= MaxRestartTimers

Stop ==
    /\ Bounded(StopCall(Cur, "stop"))
    /\ Commit(StopCall(Cur, "stop"))

\* Fault: restart without its OFFLINE branch.
RestartCallAlwaysStops(s, outcome) ==
    StopCall(LogSystem(UpdateState(s, "RESTARTING"), "Restart command received"),
             "restart")

RestartCall(s, outcome) ==
    IF s.status = "OFFLINE"
    THEN IF s.config # NoConfig
         THEN LoadAndStartCall(s, s.config.id, outcome)
         ELSE Throw(s)
    ELSE StopCall(LogSystem(UpdateState(s, "RESTARTING"), "Restart command received"),
                  "restart")

Restart(outcome) ==
    /\ IF status = "OFFLINE" /\ config # NoConfig /\ LoadAndStartSpawns(Cur, config.id)
       THEN HasFreeSlot(Cur)
       ELSE outcome = "ok"
    /\ Bounded(RestartCall(Cur, outcome))
    /\ Commit(RestartCall(Cur, outcome))

\* `await this.rcon.send('stop')` settles, resolved or rejected
SendDone(c) ==
    /\ BagIn(c, calls) /\ c.pc = "send"
    /\ Bounded(StopPoll(Resume(Cur, c), c.op, FALSE))
    /\ Commit(StopPoll(Resume(Cur, c), c.op, FALSE))

\* a 500 ms wait of stop()'s loop ends
StopPollTick(c, expired) ==
    /\ BagIn(c, calls) /\ c.pc = "stopPoll"
    /\ Bounded(StopPoll(Resume(Cur, c), c.op, expired))
    /\ Commit(StopPoll(Resume(Cur, c), c.op, expired))

\* a 500 ms wait of restart()'s loop ends
RestartPollTick(c, expired) ==
    /\ BagIn(c, calls) /\ c.pc = "poll"
    /\ Bounded(RestartPoll(Resume(Cur, c), expired))
    /\ Commit(RestartPoll(Resume(Cur, c), expired))

\* the 2 s timer of restart fires: loadAndStart(this.config!.id, actor), and
\* its rejection is caught.
OnRestartTimer(s, outcome) ==
    LET s1 == [s EXCEPT !.restartTimers = @ - 1]
        r == LoadAndStartCall(s1, s1.config.id, outcome)
    IN  IF r.result = "throw"
        THEN UpdateState(LogError(s1, "Restart Failed"), "CRASHED")
        ELSE r

RestartTimer(outcome) ==
    /\ restartTimers > 0
    /\ config # NoConfig
    /\ IF LoadAndStartSpawns(Cur, config.id) THEN HasFreeSlot(Cur) ELSE outcome = "ok"
    /\ Commit(OnRestartTimer(Cur, outcome))

(***************************************************************************)
(* Instances and backups on disk                                           *)
(***************************************************************************)
NoInstance == [exists |-> FALSE, jar |-> FALSE, autoRestart |-> TRUE]
BackupIds == 1..MaxBackups
Times == 1..MaxTime
RetentionPolicies == {"DELETE_ALL", "KEEP_ALL", "KEEP_LATEST"}

\* what fs.cpSync copies of servers/<dir>
Snapshot(s, dir) == [tree |-> s.tree[dir], jar |-> s.disk[dir].jar,
                     autoRestart |-> s.disk[dir].autoRestart]

\* a file of the selected instance is written (by the child process in its
\* working directory, or through the file API)
WriteFile ==
    /\ serverDir # 0
    /\ tree[serverDir] < MaxVersion
    /\ Commit([Cur EXCEPT !.tree[serverDir] = @ + 1])

\* createServer: the directory of the slug must not exist; the new instance
\* becomes the selected one.
CreateServerCall(s, id) ==
    IF s.disk[id].exists THEN Throw(s)
    ELSE
      LET s1 == [s EXCEPT !.disk[id] = [exists |-> TRUE, jar |-> TRUE, autoRestart |-> TRUE],
                          !.tree[id] = 0]
      IN  SelectServer(LogSystem(s1, "Server created successfully"), id)

CreateServer(id) ==
    /\ ~disk[id].exists
    /\ Commit(CreateServerCall(Cur, id))

\* Fault: createBackup without the check of this.status.
CreateBackupCallAnyState(s, b, t) ==
    IF s.serverDir = 0 \/ s.config = NoConfig THEN Throw(s)
    ELSE
      LET s1 == LogSystem(s, "[Backup] Process started")
          snap == [id |-> b, time |-> t, content |-> Snapshot(s1, s1.serverDir)]
      IN  LogSystem([s1 EXCEPT !.backups[s1.config.id] = @ \cup {snap}],
                    "[Backup] Created snapshot")

\* createBackup(actor, name): b is the name of the new snapshot directory, t
\* its birth time.
CreateBackupCall(s, b, t) ==
    IF s.serverDir = 0 \/ s.config = NoConfig THEN Throw(s)
    ELSE IF s.status # "OFFLINE" THEN Throw(s)
    ELSE
      LET s1 == LogSystem(s, "[Backup] Process started")
          snap == [id |-> b, time |-> t, content |-> Snapshot(s1, s1.serverDir)]
      IN  LogSystem([s1 EXCEPT !.backups[s1.config.id] = @ \cup {snap}],
                    "[Backup] Created snapshot")

\* The clock does not run backwards, and a directory name is used once.
FreshBackup(s, i, b, t) ==
    /\ \A x \in s.backups[i] : x.id # b /\ x.time <= t
    /\ \A c \in BackupIds : c < b => \E x \in s.backups[i] : x.id = c

\* the snapshot directories under backups/, over all instances
AllBackups(s) == UNION {s.backups[i] \X {i} : i \in ServerIds}

CreateBackup(b, t) ==
    /\ Cardinality(AllBackups(Cur)) < MaxBackups
    /\ config # NoConfig => FreshBackup(Cur, config.id, b, t)
    /\ Commit(CreateBackupCall(Cur, b, t))

\* restoreBackup(actor, id)
RestoreBackupCall(s, b) ==
    IF s.status # "OFFLINE" THEN Throw(s)
    ELSE IF s.config = NoConfig \/ ~\E x \in s.backups[s.config.id] : x.id = b
    THEN Throw(s)
    ELSE
      LET x == CHOOSE x \in s.backups[s.config.id] : x.id = b
          s1 == LogSystem(LogSystem(s, "[Restore] Process initiated"), "[Restore] Restoring")
          s2 == [s1 EXCEPT !.tree[s1.serverDir] = x.content.tree,
                           !.disk[s1.serverDir] = [exists |-> TRUE, jar |-> x.content.jar,
                                                   autoRestart |-> x.content.autoRestart]]
      IN  LogSystem(s2, "[Restore] Completed")

RestoreBackup(b) ==
    Commit(RestoreBackupCall(Cur, b))

\* Array.prototype.sort((a, b) => b.time - a.time): stable, newest first.
RECURSIVE InsertDesc(_, _)
InsertDesc(x, seq) ==
    IF seq = <<>> THEN <<x>>
    ELSE IF Head(seq).time >= x.time
         THEN <<Head(seq)>> \o InsertDesc(x, Tail(seq))
         ELSE <<x>> \o seq

RECURSIVE SortDesc(_)
SortDesc(seq) ==
    IF seq = <<>> THEN <<>>
    ELSE InsertDesc(seq[Len(seq)], SortDesc(SubSeq(seq, 1, Len(seq) - 1)))

\* The orders in which fs.readdirSync may list a directory.
Listings(S) ==
    {seq \in [1..Cardinality(S) -> S] : \A i, j \in 1..Cardinality(S) : i # j => seq[i] # seq[j]}

\* Fault: the listing is pruned without being sorted.
KeepFirstListed(listing) ==
    IF listing = <<>> THEN {} ELSE {listing[1]}

\* for (let i = 1; i < backups.length; i++) fs.rmSync(backups[i].path)
KeepLatest(listing) ==
    LET sorted == SortDesc(listing)
    IN  IF sorted = <<>> THEN {} ELSE {sorted[1]}

\* the retention step of deleteServer; listing is what readdirSync returns
ApplyRetention(s, id, backupAction, listing) ==
    IF s.backups[id] = {} THEN s
    ELSE IF backupAction = "DELETE_ALL"
    THEN [LogSystem(s, "[Delete] Removing all backups") EXCEPT !.backups[id] = {}]
    ELSE IF backupAction = "KEEP_LATEST"
    THEN [LogSystem(s, "[Delete] Pruning backups") EXCEPT !.backups[id] = KeepLatest(listing)]
    ELSE s

\* deleteServer(serverId, backupAction)
DeleteServerCall(s, id, backupAction, listing) ==
    IF ~s.disk[id].exists THEN Throw(s)
    ELSE IF s.config.id = id /\ s.status # "OFFLINE" THEN Throw(s)
    ELSE
      LET s1 == ApplyRetention(s, id, backupAction, listing)
          s2 == [LogSystem(s1, "[Delete] Removing server files")
                   EXCEPT !.disk[id] = NoInstance, !.tree[id] = 0]
      IN  IF s2.config.id = id
          THEN [s2 EXCEPT !.config = NoConfig, !.serverDir = 0,
                          !.emitted = Append(@, StatusEvent(s2.status))]
          ELSE s2

DeleteServer(id, backupAction, listing) ==
    /\ listing \in Listings(backups[id])
    /\ Commit(DeleteServerCall(Cur, id, backupAction, listing))

(***************************************************************************)
(* saveSettings and writeJsonAtomic                                        *)
(***************************************************************************)
\* The descriptor on disk at start, and the payloads of saveSettings calls.
\* data.config is a whole ServerConfig, id included; rev tells the payloads
\* apart and stands for the other fields.
OldDesc == [rev |-> 0, autoRestart |-> TRUE, id |-> 1]
Descs == [rev : 1..MaxSaves, autoRestart : BOOLEAN, id : ServerIds]
NoSave == [outcome |-> "none", config |-> NoConfig, desc |-> OldDesc, props |-> 0]

\* A file holding the first len parts of JSON.stringify(desc).
File(desc, len) == [exists |-> TRUE, desc |-> desc, len |-> len]
NoFile == [exists |-> FALSE, desc |-> OldDesc, len |-> 0]

\* JSON.parse succeeds on what was read.
Complete(f) == f.exists /\ f.len = FullLen

\* Fault: the descriptor is opened for writing in place.
OpenTmpInPlace(fsr, d) ==
    [fsr EXCEPT !.file = File(d, 0), !.tmp = File(d, 0)]

\* The system calls of writeJsonAtomic on fsr = [file, tmp]:
\* fs.writeFileSync(tmpPath) opens the file truncated ...
OpenTmp(fsr, d) == [fsr EXCEPT !.tmp = File(d, 0)]
\* ... and writes until the content is out;
WriteChunk(fsr) == [fsr EXCEPT !.tmp.len = @ + 1]
\* fs.renameSync(tmpPath, filePath).
RenameTmp(fsr) == [file |-> fsr.tmp, tmp |-> NoFile]

FsCur == [file |-> descFile, tmp |-> tmpFile]

\* A saveSettings call is received while others may be pending.
RequestSave(d) ==
    /\ Cardinality(savePending \cup {d}) <= MaxSaves
    /\ savePending' = savePending \cup {d}
    /\ UNCHANGED <<status, process, rcon, config, serverDir, crashCount,
                   intentionToStop, statusInterval, procs, respawnTimers,
                   restartTimers, rconChains, calls, disk, tree, backups,
                   descFile, tmpFile, savePc, observed>>
    /\ UNCHANGED rosterVars
    /\ UNCHANGED cmdVars
    /\ UNCHANGED logVars
    /\ UNCHANGED settingsVars
    /\ UNCHANGED userVars
    /\ UNCHANGED respawnVars
    /\ UNCHANGED pathVars

\* saveSettings(actor, data) runs: it throws without a selected instance;
\* otherwise the payload is merged into this.config and writeJsonAtomic makes
\* its first system call.  The call runs to its end before any other handler
\* of the supervisor; only other processes see the steps in between.
SaveBegin(d) ==
    /\ savePc = "idle"
    /\ d \in savePending
    /\ savePending' = savePending \ {d}
    /\ IF serverDir = 0 \/ config = NoConfig
       THEN UNCHANGED <<config, descFile, tmpFile, savePc, saveResult>>
       ELSE /\ config' = [config EXCEPT !.autoRestart = d.autoRestart, !.id = d.id]
            /\ descFile' = OpenTmp(FsCur, d).file
            /\ tmpFile' = OpenTmp(FsCur, d).tmp
            /\ savePc' = "write"
            /\ saveResult' = [outcome |-> "running", config |-> config,
                              desc |-> descFile.desc, props |-> propsFile]
    /\ UNCHANGED <<status, process, rcon, serverDir, crashCount,
                   intentionToStop, statusInterval, procs, respawnTimers,
                   restartTimers, rconChains, calls, disk, tree, backups, observed,
                   propsFile>>
    /\ UNCHANGED rosterVars
    /\ UNCHANGED cmdVars
    /\ UNCHANGED logVars
    /\ UNCHANGED userVars
    /\ UNCHANGED respawnVars
    /\ UNCHANGED pathVars

SaveWrite ==
    /\ savePc = "write"
    /\ tmpFile.len < FullLen
    /\ descFile' = WriteChunk(FsCur).file
    /\ tmpFile' = WriteChunk(FsCur).tmp
    /\ UNCHANGED <<status, process, rcon, config, serverDir, crashCount,
                   intentionToStop, statusInterval, procs, respawnTimers,
                   restartTimers, rconChains, calls, disk, tree, backups,
                   savePending, savePc, observed>>
    /\ UNCHANGED rosterVars
    /\ UNCHANGED cmdVars
    /\ UNCHANGED logVars
    /\ UNCHANGED settingsVars
    /\ UNCHANGED userVars
    /\ UNCHANGED respawnVars
    /\ UNCHANGED pathVars

\* The rename, after which saveSettings goes on to the properties file and
\* the log and returns.
SaveRename ==
    /\ savePc = "write"
    /\ tmpFile.len = FullLen
    /\ descFile' = RenameTmp(FsCur).file
    /\ tmpFile' = RenameTmp(FsCur).tmp
    /\ disk' = [disk EXCEPT ![serverDir].autoRestart = tmpFile.desc.autoRestart]
    /\ savePc' = "idle"
    /\ propsFile' = tmpFile.desc.rev
    /\ saveResult' = [saveResult EXCEPT !.outcome = "ok"]
    /\ UNCHANGED <<status, process, rcon, config, serverDir, crashCount,
                   intentionToStop, statusInterval, procs, respawnTimers,
                   restartTimers, rconChains, calls, tree, backups,
                   savePending, observed>>
    /\ UNCHANGED rosterVars
    /\ UNCHANGED cmdVars
    /\ UNCHANGED logVars
    /\ UNCHANGED userVars
    /\ UNCHANGED respawnVars
    /\ UNCHANGED pathVars

\* fs.writeFileSync or fs.renameSync throws (disk full, no permission):
\* writeJsonAtomic logs and rethrows, saveSettings has no handler, and the
\* caller gets the error.  What was written of the .tmp file stays.
SaveFail ==
    /\ savePc = "write"
    /\ savePc' = "idle"
    /\ saveResult' = [saveResult EXCEPT !.outcome = "failed"]
    /\ UNCHANGED <<status, process, rcon, config, serverDir, crashCount,
                   intentionToStop, statusInterval, procs, respawnTimers,
                   restartTimers, rconChains, calls, disk, tree, backups,
                   descFile, tmpFile, savePending, observed, propsFile>>
    /\ UNCHANGED rosterVars
    /\ UNCHANGED cmdVars
    /\ UNCHANGED logVars
    /\ UNCHANGED userVars
    /\ UNCHANGED respawnVars
    /\ UNCHANGED pathVars

\* Another process reads laplace.server.json.
ReadDescriptor ==
    /\ observed' = descFile
    /\ UNCHANGED <<status, process, rcon, config, serverDir, crashCount,
                   intentionToStop, statusInterval, procs, respawnTimers,
                   restartTimers, rconChains, calls, disk, tree, backups,
                   descFile, tmpFile, savePending, savePc>>
    /\ UNCHANGED rosterVars
    /\ UNCHANGED cmdVars
    /\ UNCHANGED logVars
    /\ UNCHANGED settingsVars
    /\ UNCHANGED userVars
    /\ UNCHANGED respawnVars
    /\ UNCHANGED pathVars

(***************************************************************************)
(* getPlayers: the roster                                                  *)
(***************************************************************************)
Players == 1..MaxPlayers
\* The names the server may list: those of the known players and one more.
Names == 1..(MaxPlayers + 1)
Flags == {"cache", "op", "banned", "whitelist"}

\* A name is a number; the same letters in the other case are the number
\* above the names: String.prototype.toLowerCase maps both to the first.
UpperCase(name) == name + MaxPlayers + 1
NameToLowerCase(name) == IF name > MaxPlayers + 1 THEN name - (MaxPlayers + 1) ELSE name

\* An entry of one of the JSON lists: a uuid and the name stored with it.
Entry(uuid, name) == [uuid |-> uuid, name |-> name]

\* The record getOrInit creates (avatarUrl, meta and linkedUser
\* are functions of uuid and name and of files that do not change here).
Player(uuid, name, source) ==
    [uuid |-> uuid, name |-> name, lastLogin |-> 0, isOnline |-> FALSE,
     isOp |-> FALSE, isBanned |-> FALSE, isWhitelisted |-> FALSE,
     source |-> source]

\* playerMap is a Map: its entries stay in insertion order.
IndexOf(m, uuid) ==
    IF \E i \in 1..Len(m) : m[i].uuid = uuid
    THEN CHOOSE i \in 1..Len(m) : m[i].uuid = uuid
    ELSE 0

GetOrInit(m, p) ==
    IF IndexOf(m, p.uuid) = 0 THEN Append(m, Player(p.uuid, p.name, "cache")) ELSE m

SetFlag(m, i, flag) ==
    CASE flag = "cache"     -> [m EXCEPT ![i].source = "cache"]
      [] flag = "op"        -> [m EXCEPT ![i].isOp = TRUE]
      [] flag = "banned"    -> [m EXCEPT ![i].isBanned = TRUE]
      [] flag = "whitelist" -> [m EXCEPT ![i].isWhitelisted = TRUE]

\* list.forEach(p => getOrInit(p.uuid, p.name).<flag> = ...)
RECURSIVE ForEach(_, _, _)
ForEach(m, list, flag) ==
    IF list = <<>> THEN m
    ELSE LET m1 == GetOrInit(m, Head(list))
         IN  ForEach(SetFlag(m1, IndexOf(m1, Head(list).uuid), flag), Tail(list), flag)

PlayerMap(files) ==
    ForEach(ForEach(ForEach(ForEach(<<>>, files.usercache, "cache"),
                            files.ops, "op"),
                    files.banned, "banned"),
            files.whitelist, "whitelist")

\* The temporary uuid `online-${name}` of a listed name no file knows.
TempId(name) == 0 - name

\* Fault: the names are compared as they are, case included.
FirstNamedExactCase(m, name) ==
    IF \E i \in 1..Len(m) : m[i].name = name
    THEN CHOOSE i \in 1..Len(m) :
            m[i].name = name /\ \A j \in 1..(i - 1) : m[j].name # name
    ELSE 0

\* for (const [uuid, p] of playerMap.entries())
\*     if (p.name.toLowerCase() === name.toLowerCase()) { ...; break; }
SameName(a, b) == NameToLowerCase(a) = NameToLowerCase(b)

FirstNamed(m, name) ==
    IF \E i \in 1..Len(m) : SameName(m[i].name, name)
    THEN CHOOSE i \in 1..Len(m) :
            SameName(m[i].name, name) /\ \A j \in 1..(i - 1) : ~SameName(m[j].name, name)
    ELSE 0

\* playerMap.set(key, record): the record of an existing key is replaced in
\* place, a new key goes to the end.
MapSet(m, record) ==
    IF IndexOf(m, record.uuid) = 0 THEN Append(m, record)
    ELSE [m EXCEPT ![IndexOf(m, record.uuid)] = record]

\* onlineNames.forEach: the first record of that name goes online, or a
\* temporary record is added.
RECURSIVE MarkOnline(_, _, _)
MarkOnline(m, names, now) ==
    IF names = <<>> THEN m
    ELSE LET i == FirstNamed(m, Head(names))
             m1 == IF i # 0
                   THEN [m EXCEPT ![i].isOnline = TRUE, ![i].lastLogin = now]
                   ELSE MapSet(m, [Player(TempId(Head(names)), Head(names), "rcon")
                                      EXCEPT !.isOnline = TRUE, !.lastLogin = now])
         IN  MarkOnline(m1, Tail(names), now)

\* The comparator of the final sort: online first, then latest login first.
Compare(a, b) ==
    IF a.isOnline # b.isOnline
    THEN (IF a.isOnline THEN 0 - 1 ELSE 1)
    ELSE b.lastLogin - a.lastLogin

\* Array.prototype.sort is stable: a record goes before the first one it
\* compares less than.
RECURSIVE InsertSorted(_, _)
InsertSorted(sorted, x) ==
    IF sorted = <<>> THEN <<x>>
    ELSE IF Compare(x, Head(sorted)) < 0 THEN <<x>> \o sorted
    ELSE <<Head(sorted)>> \o InsertSorted(Tail(sorted), x)

RECURSIVE SortRoster(_)
SortRoster(m) ==
    IF m = <<>> THEN <<>>
    ELSE InsertSorted(SortRoster(SubSeq(m, 1, Len(m) - 1)), m[Len(m)])

NoRoster == [called |-> FALSE, roster |-> <<>>]
Returned(roster) == [called |-> TRUE, roster |-> roster]

RosterCur == [status |-> status, rcon |-> rcon, serverDir |-> serverDir,
              playerFiles |-> playerFiles, onlinePlayers |-> onlinePlayers,
              rosterCalls |-> rosterCalls, returned |-> returned]

\* getPublicInfo(): the status and the players of the snapshot (name, motd,
\* version, coreType and max come from files that do not change here).
GetPublicInfo(g) ==
    [status |-> g.status,
     players |-> [online |-> Len(g.onlinePlayers), list |-> g.onlinePlayers]]

\* Fault: the live query is attempted whenever the state is ONLINE, session
\* or not.
LiveQueryNoSessionCheck(g) == g.status = "ONLINE"

\* if (this.status === 'ONLINE' && this.rcon)
LiveQuery(g) == g.status = "ONLINE" /\ g.rcon

\* getPlayers() up to its return, or up to await this.rcon.send('list').
GetPlayersCall(g) ==
    IF g.serverDir = 0 THEN [g EXCEPT !.returned = Returned(<<>>)]
    ELSE LET g1 == [g EXCEPT !.onlinePlayers = <<>>]
         IN  IF LiveQuery(g1)
             THEN [g1 EXCEPT !.rosterCalls = @ + 1]
             ELSE [g1 EXCEPT !.returned = Returned(SortRoster(PlayerMap(g1.playerFiles)))]

\* The rest of getPlayers once the answer to 'list' is in: answer.ok is
\* false when send rejected or no 'online:' part was found.
GetPlayersAnswered(g, answer) ==
    LET listed == answer.ok /\ answer.names # <<>>
        m == PlayerMap(g.playerFiles)
        m1 == IF listed THEN MarkOnline(m, answer.names, Now) ELSE m
    IN  [g EXCEPT !.onlinePlayers = IF listed THEN answer.names ELSE @,
                  !.rosterCalls = @ - 1,
                  !.returned = Returned(SortRoster(m1))]

CommitRoster(g) ==
    /\ onlinePlayers' = g.onlinePlayers
    /\ rosterCalls' = g.rosterCalls
    /\ returned' = g.returned
    /\ UNCHANGED <<status, process, rcon, config, serverDir, crashCount,
                   intentionToStop, statusInterval, procs, respawnTimers,
                   restartTimers, rconChains, calls, disk, tree, backups,
                   playerFiles>>
    /\ UNCHANGED saveVars
    /\ UNCHANGED cmdVars
    /\ UNCHANGED logVars
    /\ UNCHANGED settingsVars
    /\ UNCHANGED userVars
    /\ UNCHANGED respawnVars
    /\ UNCHANGED pathVars

\* A client (or the status poller) calls getPlayers.
GetPlayers ==
    /\ LiveQuery(RosterCur) /\ serverDir # 0 => rosterCalls < MaxRosterCalls
    /\ CommitRoster(GetPlayersCall(RosterCur))

Answers == [ok : BOOLEAN,
            names : {l \in UNION {[1..k -> Names] : k \in 0..MaxOnline} :
                        \A i, j \in 1..Len(l) : l[i] = l[j] => i = j}]

GetPlayersAnswer(answer) ==
    /\ rosterCalls > 0
    /\ CommitRoster(GetPlayersAnswered(RosterCur, answer))

EntryLists(entries, n) == UNION {[1..k -> entries] : k \in 0..n}

\* Lists in which every player is stored under one name, in lower case.
PlayerLists(n) == EntryLists({Entry(u, u) : u \in Players}, n)

InitPlayerFiles ==
    [usercache : PlayerLists(MaxEntries), ops : PlayerLists(MaxEntries),
     banned : PlayerLists(MaxListed), whitelist : PlayerLists(MaxListed)]

\* Lists in which a name is stored in either case and under either uuid, and
\* answers that list a name twice or in both cases.
LiveNames == {1, UpperCase(1), MaxPlayers + 1}
LiveEntries == {Entry(u, n) : u \in Players, n \in {1, UpperCase(1), 2}}

LivePlayerFiles ==
    [usercache : EntryLists(LiveEntries, MaxEntries), ops : EntryLists(LiveEntries, MaxListed),
     banned : {<<>>}, whitelist : {<<>>}]

LiveAnswers == [ok : BOOLEAN, names : UNION {[1..k -> LiveNames] : k \in 0..MaxOnline}]

NoPlayerFiles == [usercache |-> <<>>, ops |-> <<>>, banned |-> <<>>, whitelist |-> <<>>]

(***************************************************************************)
(* validatePath                                                            *)
(***************************************************************************)
\* A path is a sequence of segments, a segment a sequence of characters.
\* The names of two instance directories, one a prefix of the other, and of
\* a file; the segment '..'; the directory SERVERS_DIR.
DirA == <<"s">>
DirB == <<"s", "2">>
FileName == <<"f">>
DotDot == <<".", ".">>
ServersDir == <<<<"d">>, <<"servers">>>>
Segments == {DirA, DirB, FileName, DotDot}
RequestedPaths == UNION {[1..k -> Segments] : k \in 0..MaxSegments}

\* path.resolve of an absolute path: '..' drops the segment before it, and
\* nothing above the root.
RECURSIVE Resolve(_, _)
Resolve(done, rest) ==
    IF rest = <<>> THEN done
    ELSE IF Head(rest) = DotDot
         THEN Resolve(IF done = <<>> THEN <<>> ELSE SubSeq(done, 1, Len(done) - 1), Tail(rest))
         ELSE Resolve(Append(done, Head(rest)), Tail(rest))

\* The string of an absolute path: every segment after a separator.
RECURSIVE PathString(_)
PathString(path) ==
    IF path = <<>> THEN <<>>
    ELSE <<"/">> \o Head(path) \o PathString(Tail(path))

\* String.prototype.startsWith
StartsWith(str, prefix) ==
    Len(str) >= Len(prefix) /\ SubSeq(str, 1, Len(prefix)) = prefix

ValidatePath(active, requested) ==
    IF active = <<>> THEN [result |-> "throw", target |-> <<>>]
    ELSE LET root == Resolve(<<>>, Append(ServersDir, active))
             target == Resolve(<<>>, root \o requested)
         IN  IF ~StartsWith(PathString(target), PathString(root))
             THEN [result |-> "throw", target |-> <<>>]
             ELSE [result |-> "ok", target |-> target]

NoPath == [result |-> "none", target |-> <<>>, active |-> <<>>]

CommitPath ==
    UNCHANGED <<status, process, rcon, config, serverDir, crashCount,
                intentionToStop, statusInterval, procs, respawnTimers,
                restartTimers, rconChains, calls, disk, tree, backups,
                saveVars, rosterVars, cmdVars, logVars, settingsVars, userVars,
                respawnVars>>

\* /api/server/start and /api/server/create store the id of the instance as
\* activeServer.
SetActiveServer(id) ==
    /\ activeServer' = id
    /\ UNCHANGED <<requestedPath, validated>>
    /\ CommitPath

\* One of the file routes validates the path of its request.
ValidatePathCall(requested) ==
    /\ requestedPath' = requested
    /\ validated' = [result |-> ValidatePath(activeServer, requested).result,
                     target |-> ValidatePath(activeServer, requested).target,
                     active |-> activeServer]
    /\ UNCHANGED activeServer
    /\ CommitPath

(***************************************************************************)
(* executeCommand                                                          *)
(***************************************************************************)
\* The characters of a response: the section sign U+00A7, the Thai letters
\* U+0E22 and U+0E07, a character of the class [0-9a-fk-or] and one outside it.
Chars == {"sect", "yo", "ngo", "a", "z"}
CodeChars == {"a"}
Texts == UNION {[1..k -> Chars] : k \in 0..MaxText}

\* response.replace(/<U+0E22><U+0E07>[0-9a-fk-or]/g, ''): the pattern in the
\* source file is the two characters U+0E22 U+0E07 and a class character.
RECURSIVE StripCodes(_)
StripCodes(text) ==
    IF text = <<>> THEN <<>>
    ELSE IF Len(text) >= 3 /\ text[1] = "yo" /\ text[2] = "ngo" /\ text[3] \in CodeChars
    THEN StripCodes(SubSeq(text, 4, Len(text)))
    ELSE <<Head(text)>> \o StripCodes(Tail(text))

\* The text without its color codes: each section sign followed by a class
\* character removed, from left to right.
RECURSIVE WithoutColorCodes(_)
WithoutColorCodes(text) ==
    IF text = <<>> THEN <<>>
    ELSE IF Len(text) >= 2 /\ text[1] = "sect" /\ text[2] \in CodeChars
    THEN WithoutColorCodes(SubSeq(text, 3, Len(text)))
    ELSE <<Head(text)>> \o WithoutColorCodes(Tail(text))

NoReturn == [kind |-> "none", text |-> <<>>]
SendEvent == [kind |-> "send", type |-> "rcon", msg |-> ""]
StdinEvent == [kind |-> "write", type |-> "stdin", msg |-> ""]

CmdCur == [status |-> status, rcon |-> rcon, process |-> process,
           cmdCalls |-> cmdCalls, lastResponse |-> lastResponse,
           lastReturn |-> lastReturn, emitted |-> <<>>, result |-> "ok"]

\* Fault: executeCommand without its check of the state.
ExecuteCommandCallAnyState(c) ==
    LET c1 == Log(c, "[actor] /cmd", "info")
    IN  IF c1.rcon
        THEN [c1 EXCEPT !.cmdCalls = @ + 1, !.emitted = Append(@, SendEvent)]
        ELSE IF c1.process # 0
        THEN [c1 EXCEPT !.emitted = Append(@, StdinEvent),
                        !.lastReturn = [kind |-> "stdin", text |-> <<>>]]
        ELSE [Throw(c1) EXCEPT !.lastReturn = [kind |-> "throw", text |-> <<>>]]

\* executeCommand(actor, cmd) up to its return, its throw or its
\* await this.rcon.send(cmd).  this.rcon is set once connected, and
\* this.process.stdin exists whenever this.process does.
ExecuteCommandCall(c) ==
    IF c.status # "ONLINE" /\ c.status # "STARTING"
    THEN [Throw(c) EXCEPT !.lastReturn = [kind |-> "throw", text |-> <<>>]]
    ELSE ExecuteCommandCallAnyState(c)

\* The rest of executeCommand: send resolved with a response, or rejected.
CommandAnswered(c, ok, response) ==
    IF ok
    THEN [c EXCEPT !.cmdCalls = @ - 1, !.lastResponse = response,
                   !.lastReturn = [kind |-> "response", text |-> StripCodes(response)]]
    ELSE [Throw(LogError(c, "RCON Error"))
            EXCEPT !.cmdCalls = @ - 1,
                   !.lastReturn = [kind |-> "throw", text |-> <<>>]]

CommitCmd(c) ==
    /\ cmdCalls' = c.cmdCalls
    /\ lastResponse' = c.lastResponse
    /\ lastReturn' = c.lastReturn
    /\ UNCHANGED <<status, process, rcon, config, serverDir, crashCount,
                   intentionToStop, statusInterval, procs, respawnTimers,
                   restartTimers, rconChains, calls, disk, tree, backups>>
    /\ UNCHANGED saveVars
    /\ UNCHANGED rosterVars
    /\ UNCHANGED logVars
    /\ UNCHANGED settingsVars
    /\ UNCHANGED userVars
    /\ UNCHANGED respawnVars
    /\ UNCHANGED pathVars

ExecuteCommand ==
    /\ ExecuteCommandCall(CmdCur).cmdCalls <= MaxCmdCalls
    /\ CommitCmd(ExecuteCommandCall(CmdCur))

CommandAnswer(ok, response) ==
    /\ cmdCalls > 0
    /\ CommitCmd(CommandAnswered(CmdCur, ok, response))

(***************************************************************************)
(* log(): the buffer of recent entries                                     *)
(***************************************************************************)
\* What a message is made of: an ANSI escape sequence (one match of the
\* pattern log() removes), white space, a printable character.
LogChars == {"esc", "sp", "a"}
Messages == UNION {[1..k -> LogChars] : k \in 0..MaxMsg}
LogTypes == {"info", "error"}

\* message.replace(<ANSI pattern>, '')
RECURSIVE StripAnsi(_)
StripAnsi(msg) ==
    IF msg = <<>> THEN <<>>
    ELSE IF Head(msg) = "esc" THEN StripAnsi(Tail(msg))
    ELSE <<Head(msg)>> \o StripAnsi(Tail(msg))

\* String.prototype.trim
RECURSIVE Trim(_)
Trim(msg) ==
    IF msg = <<>> THEN <<>>
    ELSE IF Head(msg) = "sp" THEN Trim(Tail(msg))
    ELSE IF msg[Len(msg)] = "sp" THEN Trim(SubSeq(msg, 1, Len(msg) - 1))
    ELSE msg

CleanMsg(msg) == Trim(StripAnsi(msg))

LogCur == [logs |-> logs, produced |-> produced]

\* Fault: a full buffer gives up its newest entry, not its oldest.
PushLogDropNewest(l, msg, type) ==
    IF CleanMsg(msg) = <<>> THEN l
    ELSE LET entry == [message |-> CleanMsg(msg), type |-> type]
             pushed == Append(l.logs, entry)
         IN  [logs |-> IF Len(pushed) > MAX_LOGS
                       THEN SubSeq(pushed, 1, Len(pushed) - 1) ELSE pushed,
              produced |-> Append(l.produced, entry)]

\* log(message, type): push, shift when over MAX_LOGS, emit('log', entry).
PushLog(l, msg, type) ==
    IF CleanMsg(msg) = <<>> THEN l
    ELSE LET entry == [message |-> CleanMsg(msg), type |-> type]
             pushed == Append(l.logs, entry)
         IN  [logs |-> IF Len(pushed) > MAX_LOGS THEN Tail(pushed) ELSE pushed,
              produced |-> Append(l.produced, entry)]

\* A chunk of the child's stdout (info) or stderr (error), or a message of
\* the supervisor itself.
LogLine(msg, type) ==
    /\ Len(PushLog(LogCur, msg, type).produced) <= MaxProduced
    /\ logs' = PushLog(LogCur, msg, type).logs
    /\ produced' = PushLog(LogCur, msg, type).produced
    /\ UNCHANGED <<status, process, rcon, config, serverDir, crashCount,
                   intentionToStop, statusInterval, procs, respawnTimers,
                   restartTimers, rconChains, calls, disk, tree, backups>>
    /\ UNCHANGED saveVars
    /\ UNCHANGED rosterVars
    /\ UNCHANGED cmdVars
    /\ UNCHANGED settingsVars
    /\ UNCHANGED userVars
    /\ UNCHANGED respawnVars
    /\ UNCHANGED pathVars

(***************************************************************************)
(* The accounts (class User)                                               *)
(***************************************************************************)
SystemId == "00000000-0000-0000-0000-000000000000"
SystemToken == "Administrator"
\* The values uuidv4() gives out, in order.
Uuids == <<"u1", "u2", "u3", "u4", "u5", "u6", "u7", "u8">>
Uuid(n) == IF n \in 1..Len(Uuids) THEN Uuids[n] ELSE "u"
\* Names a caller may choose; "x" is too short for registerUser.
UserNames == {"system", "SYSTEM", "ann", "x"}
\* What a tokens.json of an earlier version may hold as name and as token.
LegacyStrings == {"system", "SYSTEM", "ann", SystemToken, SystemId}
Providers == {"discord"}
ExternalValues == {"e1", "e2"}
Queries == UserNames \cup {SystemToken, SystemId} \cup {Uuid(i) : i \in 1..MaxUuids}
VALID_ROLES == {"admin", "user", "guest"}

ToLowerCase(str) == IF str = "SYSTEM" THEN "system" ELSE str

NoLinks == [p \in Providers |-> "none"]
NewUser(id, username, token, role) ==
    [id |-> id, username |-> username, token |-> token, role |-> role,
     externalIds |-> NoLinks]

UsersCur == [users |-> users, nextUuid |-> nextUuid, result |-> "ok"]

FirstIndex(us, Test(_)) ==
    IF \E i \in 1..Len(us) : Test(us[i])
    THEN CHOOSE i \in 1..Len(us) : Test(us[i]) /\ \A j \in 1..(i - 1) : ~Test(us[j])
    ELSE 0

\* findUser(query): the first user whose id, lower-cased name or token matches
FindUser(us, query) ==
    LET Test(u) == \/ u.id = query
                   \/ ToLowerCase(u.username) = ToLowerCase(query)
                   \/ u.token = query
    IN  FirstIndex(us, Test)

RemoveAt(us, i) == SubSeq(us, 1, i - 1) \o SubSeq(us, i + 1, Len(us))

\* migrateLegacy(): the admins, then the guests, each with a new id
MigrateLegacy(st, legacy) ==
    LET st1 == IF legacy.admin = <<>> THEN st
               ELSE [st EXCEPT !.users = Append(@, NewUser(Uuid(st.nextUuid),
                                    legacy.admin[1].name, legacy.admin[1].token, "admin")),
                               !.nextUuid = @ + 1]
    IN  IF legacy.guest = <<>> THEN st1
        ELSE [st1 EXCEPT !.users = Append(@, NewUser(Uuid(st1.nextUuid),
                                    "Guest", legacy.guest[1], "guest")),
                         !.nextUuid = @ + 1]

\* initialize() when users.json does not exist yet
Initialize(legacy) ==
    LET st0 == MigrateLegacy([users |-> <<>>, nextUuid |-> 1, result |-> "ok"], legacy)
        sys == LET Test(u) == u.role = "system" IN FirstIndex(st0.users, Test)
        st1 == IF sys # 0
               THEN [st0 EXCEPT !.users[sys].token = SystemToken]
               ELSE [st0 EXCEPT !.users =
                        <<NewUser(SystemId, "system", SystemToken, "system")>> \o @]
    IN  IF \E i \in 1..Len(st1.users) : st1.users[i].role = "admin" THEN st1
        ELSE [st1 EXCEPT !.users = Append(@, NewUser(Uuid(st1.nextUuid + 1), "admin",
                                                      Uuid(st1.nextUuid), "admin")),
                         !.nextUuid = @ + 2]

\* registerUser(username, role)
RegisterUserCall(st, username, role) ==
    IF \/ username = "x"
       \/ \E i \in 1..Len(st.users) :
             ToLowerCase(st.users[i].username) = ToLowerCase(username)
       \/ role \notin VALID_ROLES
    THEN [st EXCEPT !.result = "throw"]
    ELSE [st EXCEPT !.users = Append(@, NewUser(Uuid(st.nextUuid), username,
                                                Uuid(st.nextUuid + 1), role)),
                    !.nextUuid = @ + 2]

\* Fault: deleteUser without its check of the role.
DeleteUserCallUnchecked(st, query) ==
    LET Test(u) == u.id = query \/ ToLowerCase(u.username) = ToLowerCase(query)
        idx == FirstIndex(st.users, Test)
    IN  IF idx = 0 THEN [st EXCEPT !.result = "false"]
        ELSE [st EXCEPT !.users = RemoveAt(@, idx)]

\* deleteUser(query): the check is made on findUser(query), the removal on the
\* first user whose id or lower-cased name matches.
DeleteUserCall(st, query) ==
    LET user == FindUser(st.users, query)
    IN  IF user # 0 /\ st.users[user].role = "system"
        THEN [st EXCEPT !.result = "throw"]
        ELSE DeleteUserCallUnchecked(st, query)

\* rotateToken(query)
RotateTokenCall(st, query) ==
    LET user == FindUser(st.users, query)
    IN  IF user = 0 \/ st.users[user].role = "system"
        THEN [st EXCEPT !.result = "throw"]
        ELSE [st EXCEPT !.users[user].token = Uuid(st.nextUuid), !.nextUuid = @ + 1]

\* linkExternal(usernameOrId, provider, externalValue)
\* Fault: linkExternal without the search for an existing claim.
LinkExternalCallUnchecked(st, query, provider, value) ==
    LET user == FindUser(st.users, query)
    IN  IF user = 0
        THEN [st EXCEPT !.result = "throw"]
        ELSE [st EXCEPT !.users[user].externalIds[provider] = value]

\* authenticate(tokenType, credential) for a provider: the users that
\* this.users.find may return are those whose external id of that provider
\* is the credential.
Authenticate(us, provider, credential) ==
    {i \in 1..Len(us) : us[i].externalIds[provider] = credential}

\* linkExternal(usernameOrId, provider, externalValue)
LinkExternalCall(st, query, provider, value) ==
    LET user == FindUser(st.users, query)
    IN  IF \/ user = 0
           \/ \E i \in 1..Len(st.users) :
                 st.users[i].externalIds[provider] = value /\ st.users[i].id # st.users[user].id
        THEN [st EXCEPT !.result = "throw"]
        ELSE [st EXCEPT !.users[user].externalIds[provider] = value]

\* unlinkExternal(usernameOrId, provider)
UnlinkExternalCall(st, query, provider) ==
    LET user == FindUser(st.users, query)
    IN  IF user = 0 \/ st.users[user].externalIds[provider] = "none"
        THEN [st EXCEPT !.result = "throw"]
        ELSE [st EXCEPT !.users[user].externalIds[provider] = "none"]

CommitUsers(st) ==
    /\ st.nextUuid <= MaxUuids + 1
    /\ Len(st.users) <= MaxUsers
    /\ users' = st.users
    /\ nextUuid' = st.nextUuid
    /\ UNCHANGED <<status, process, rcon, config, serverDir, crashCount,
                   intentionToStop, statusInterval, procs, respawnTimers,
                   restartTimers, rconChains, calls, disk, tree, backups>>
    /\ UNCHANGED saveVars
    /\ UNCHANGED rosterVars
    /\ UNCHANGED cmdVars
    /\ UNCHANGED logVars
    /\ UNCHANGED settingsVars
    /\ UNCHANGED respawnVars
    /\ UNCHANGED pathVars

RegisterUser(username, role) == CommitUsers(RegisterUserCall(UsersCur, username, role))
DeleteUser(query) == CommitUsers(DeleteUserCall(UsersCur, query))
RotateToken(query) == CommitUsers(RotateTokenCall(UsersCur, query))
LinkExternal(query, provider, value) ==
    CommitUsers(LinkExternalCall(UsersCur, query, provider, value))
UnlinkExternal(query, provider) == CommitUsers(UnlinkExternalCall(UsersCur, query, provider))

Legacies ==
    [admin : {<<>>} \cup {<<[name |-> n, token |-> k]>> : n \in LegacyStrings, k \in LegacyStrings},
     guest : {<<>>} \cup {<<k>> : k \in LegacyStrings}]
NoLegacy == [admin |-> <<>>, guest |-> <<>>]

CallStates == [op : {"stop", "restart"}, pc : {"send", "stopPoll", "poll"}]
ChainStates == [attempts : 0..RCON_MAX_ATTEMPTS, pc : {"timer", "connect"}]

(***************************************************************************)
(* Initial state and specification                                         *)
(***************************************************************************)
\* Instance 1 is a complete installation, with auto-restart on or off; the
\* other instances are absent (auto-restart on) or lack their jar (off).
InitDisks ==
    {d \in [ServerIds -> [exists : BOOLEAN, jar : BOOLEAN, autoRestart : BOOLEAN]] :
        /\ d[1].exists /\ d[1].jar
        /\ \A i \in ServerIds \ {1} :
              ~d[i].jar /\ d[i].autoRestart /\ (d[i].exists <=> ~d[1].autoRestart)}

\* The fields other than the selection, after construction.
InitFields ==
    /\ status = "OFFLINE"
    /\ process = 0
    /\ rcon = FALSE
    /\ crashCount = 0
    /\ intentionToStop = FALSE
    /\ statusInterval = FALSE
    /\ procs = [p \in Slots |-> "none"]
    /\ respawnTimers = 0
    /\ restartTimers = 0
    /\ rconChains = EmptyBag
    /\ calls = EmptyBag
    /\ disk \in InitDisks
    /\ tree = [i \in ServerIds |-> 0]
    /\ backups = [i \in ServerIds |-> {}]
    /\ descFile = File(OldDesc, FullLen)
    /\ tmpFile = NoFile
    /\ savePending = {}
    /\ savePc = "idle"
    /\ observed = File(OldDesc, FullLen)
    /\ onlinePlayers = <<>>
    /\ rosterCalls = 0
    /\ returned = NoRoster
    /\ cmdCalls = 0
    /\ lastResponse = <<>>
    /\ lastReturn = NoReturn
    /\ logs = <<>>
    /\ propsFile = 0
    /\ saveResult = NoSave
    /\ produced = <<>>
    /\ stopNoted = FALSE
    /\ activeServer = <<>>
    /\ requestedPath = <<>>
    /\ validated = NoPath

Init ==
    /\ InitFields
    /\ playerFiles = NoPlayerFiles
    /\ users = Initialize(NoLegacy).users
    /\ nextUuid = Initialize(NoLegacy).nextUuid
    /\ config = NoConfig
    /\ serverDir = 0

Next ==
    \/ \E id \in ServerIds, o \in SpawnOutcomes : LoadAndStart(id, o)
    \/ \E p \in Slots, code \in ExitCodes \cup {SpawnErrCode} : ProcessClose(p, code)
    \/ \E o \in SpawnOutcomes : RespawnTimer(o)
    \/ \E p \in Slots : SpawnError(p)
    \/ \E p \in Slots : ReadySignal(p)
    \/ \E c \in ChainStates : RconTimer(c)
    \/ \E c \in ChainStates, ok \in BOOLEAN : RconConnected(c, ok)
    \/ Stop
    \/ \E o \in SpawnOutcomes : Restart(o)
    \/ \E c \in CallStates : SendDone(c)
    \/ \E c \in CallStates, e \in BOOLEAN : StopPollTick(c, e)
    \/ \E c \in CallStates, e \in BOOLEAN : RestartPollTick(c, e)
    \/ \E o \in SpawnOutcomes : RestartTimer(o)
    \/ PollTick

Spec == Init /\ [][Next]_vars

\* The operations on instances and backups, interleaved with starts, stops,
\* readiness and exits of the child (no control channel, respawn or restart).
NextFs ==
    \/ \E id \in ServerIds : LoadAndStart(id, "ok")
    \/ \E p \in Slots, code \in ExitCodes : ProcessClose(p, code)
    \/ \E p \in Slots : ReadySignal(p)
    \/ Stop
    \/ WriteFile
    \/ \E id \in ServerIds : CreateServer(id)
    \/ \E b \in BackupIds, t \in Times : CreateBackup(b, t)
    \/ \E b \in BackupIds : RestoreBackup(b)
    \/ \E id \in ServerIds, a \in RetentionPolicies :
          \E l \in Listings(backups[id]) : DeleteServer(id, a, l)

SpecFs == Init /\ [][NextFs]_vars

\* After startup has selected the active instance (instance 1): saveSettings
\* calls and a reader of the descriptor file.
InitSave ==
    /\ InitFields
    /\ disk[1].autoRestart = OldDesc.autoRestart
    /\ config = [id |-> 1, autoRestart |-> disk[1].autoRestart]
    /\ serverDir = 1
    /\ playerFiles = NoPlayerFiles
    /\ users = Initialize(NoLegacy).users
    /\ nextUuid = Initialize(NoLegacy).nextUuid

NextSave ==
    \/ \E d \in Descs : RequestSave(d)
    \/ \E d \in Descs : SaveBegin(d)
    \/ SaveWrite
    \/ SaveRename
    \/ SaveFail
    \/ ReadDescriptor

SpecSave == InitSave /\ [][NextSave]_vars

\* The roster of instance 1, whose lists hold any players in any order, asked
\* for while the child starts, becomes ready, gets its session and exits.
InitRoster ==
    /\ InitFields
    /\ disk[1].autoRestart
    /\ config = NoConfig
    /\ serverDir = 0
    /\ playerFiles \in InitPlayerFiles
    /\ users = Initialize(NoLegacy).users
    /\ nextUuid = Initialize(NoLegacy).nextUuid

NextRoster ==
    \/ LoadAndStart(1, "ok")
    \/ \E p \in Slots : ProcessClose(p, 0)
    \/ \E p \in Slots : ReadySignal(p)
    \/ \E c \in ChainStates : RconTimer(c)
    \/ \E c \in ChainStates : RconConnected(c, TRUE)
    \/ GetPlayers
    \/ \E answer \in Answers : GetPlayersAnswer(answer)

SpecRoster == InitRoster /\ [][NextRoster]_vars

\* getPlayers with names in both cases.
InitLive ==
    /\ InitFields
    /\ disk[1].autoRestart
    /\ config = NoConfig
    /\ serverDir = 0
    /\ playerFiles \in LivePlayerFiles
    /\ users = Initialize(NoLegacy).users
    /\ nextUuid = Initialize(NoLegacy).nextUuid

NextLive ==
    \/ LoadAndStart(1, "ok")
    \/ \E p \in Slots : ProcessClose(p, 0)
    \/ \E p \in Slots : ReadySignal(p)
    \/ \E c \in ChainStates : RconTimer(c)
    \/ \E c \in ChainStates : RconConnected(c, TRUE)
    \/ GetPlayers
    \/ \E answer \in LiveAnswers : GetPlayersAnswer(answer)

SpecLive == InitLive /\ [][NextLive]_vars

NextPath ==
    \/ \E id \in {DirA, DirB} : SetActiveServer(id)
    \/ \E requested \in RequestedPaths : ValidatePathCall(requested)

SpecPath == Init /\ [][NextPath]_vars

\* Commands given while instance 1 is started, becomes ready, gets its
\* session, is stopped and exits.
NextCmd ==
    \/ LoadAndStart(1, "ok")
    \/ \E p \in Slots, code \in {0, 1} : ProcessClose(p, code)
    \/ \E p \in Slots : ReadySignal(p)
    \/ \E c \in ChainStates : RconTimer(c)
    \/ \E c \in ChainStates : RconConnected(c, TRUE)
    \/ ExecuteCommand
    \/ \E ok \in BOOLEAN, response \in Texts : CommandAnswer(ok, response)

SpecCmd == Init /\ [][NextCmd]_vars

\* Commands with empty responses, given while instance 1 is started (the
\* launch may fail), becomes ready, gets its session, is stopped and exits.
NextCmdLife ==
    \/ \E o \in SpawnOutcomes : LoadAndStart(1, o)
    \/ \E p \in Slots, code \in {0, 1, SpawnErrCode} : ProcessClose(p, code)
    \/ \E p \in Slots : SpawnError(p)
    \/ \E p \in Slots : ReadySignal(p)
    \/ \E c \in ChainStates : RconTimer(c)
    \/ \E c \in ChainStates : RconConnected(c, TRUE)
    \/ Stop
    \/ \E c \in CallStates : SendDone(c)
    \/ \E c \in CallStates, e \in BOOLEAN : StopPollTick(c, e)
    \/ ExecuteCommand
    \/ \E ok \in BOOLEAN : CommandAnswer(ok, <<>>)

SpecCmdLife == Init /\ [][NextCmdLife]_vars

\* Output of the child and messages of the supervisor, in any order.
NextLog == \E msg \in Messages, type \in LogTypes : LogLine(msg, type)

SpecLog == Init /\ [][NextLog]_vars

\* The registry after its first initialization, with or without the
\* tokens.json of an earlier version, and the calls made on it.
InitUsers ==
    /\ InitFields
    /\ disk[1].autoRestart
    /\ config = NoConfig
    /\ serverDir = 0
    /\ playerFiles = NoPlayerFiles
    /\ \E legacy \in Legacies :
          /\ users = Initialize(legacy).users
          /\ nextUuid = Initialize(legacy).nextUuid

NextUsers ==
    \/ \E username \in UserNames, role \in VALID_ROLES \cup {"system"} :
          RegisterUser(username, role)
    \/ \E query \in Queries : DeleteUser(query)
    \/ \E query \in Queries : RotateToken(query)
    \/ \E query \in Queries, provider \in Providers, value \in ExternalValues :
          LinkExternal(query, provider, value)
    \/ \E query \in Queries, provider \in Providers : UnlinkExternal(query, provider)

SpecUsers == InitUsers /\ [][NextUsers]_vars

(***************************************************************************)
(* Properties                                                              *)
(***************************************************************************)
Alive == {p \in Slots : procs[p] = "alive"}

\* C1: whatever the interleaving of starts, stops, restarts, exits and timer
\* firings, at most one spawned child process is alive at any time.
C1_AtMostOneAlive == Cardinality(Alive) <= 1

\* The states a call to loadAndStart can find the supervisor in: the current
\* one and, inside restart(), the one right after updateState('RESTARTING').
Observable ==
    {Cur} \cup (IF status # "OFFLINE" THEN {UpdateState(Cur, "RESTARTING")} ELSE {})

BusyStates == {"STARTING", "ONLINE", "STOPPING", "RESTARTING"}

\* C2: in STARTING, ONLINE, STOPPING and RESTARTING a call to loadAndStart
\* throws, leaves the lifecycle state as it was and spawns nothing.
C2_StartRejectedWhileBusy ==
    \A s \in Observable : \A id \in ServerIds, o \in SpawnOutcomes :
        s.status \in BusyStates =>
            LET r == LoadAndStartCall(s, id, o)
            IN  /\ r.result = "throw"
                /\ r.status = s.status
                /\ r.procs = s.procs
                /\ r.process = s.process

\* C2 witness: the server is ONLINE, and a start of an existing instance with
\* a jar would find room to spawn.
C2_Witness ==
    /\ status = "ONLINE"
    /\ \E id \in ServerIds : SelectServerOk(Cur, id) /\ disk[id].jar
    /\ HasFreeSlot(Cur)

\* C3: the exit that takes the crash counter past 3 (the 4th unintended exit
\* since the last manual start) leaves the state CRASHED with no respawn
\* scheduled.
C3_FourthExitEndsRespawns ==
    [][(crashCount' # crashCount /\ crashCount' > MAX_CRASH_RESPAWNS)
          => (status' = "CRASHED" /\ respawnTimers' = 0)]_vars


\* A step that is an accepted loadAndStart: called by a client, by restart()
\* in OFFLINE, or by restart's 2 s timer.
AcceptedStart ==
    \/ \E id \in ServerIds, o \in SpawnOutcomes :
          LoadAndStart(id, o) /\ LoadAndStartCall(Cur, id, o).result = "ok"
    \/ \E o \in SpawnOutcomes :
          Restart(o) /\ status = "OFFLINE" /\ RestartCall(Cur, o).result = "ok"
    \/ \E o \in SpawnOutcomes :
          /\ RestartTimer(o)
          /\ LoadAndStartCall([Cur EXCEPT !.restartTimers = @ - 1], config.id, o).result = "ok"

\* C4: every accepted loadAndStart leaves the crash counter at 0 whatever it
\* was, and a firing of the crash-respawn timer leaves the counter as it was.
C4_StartResetsCrashCount ==
    [][/\ AcceptedStart => crashCount' = 0
       /\ (\E o \in SpawnOutcomes : RespawnTimer(o)) => crashCount' = crashCount]_vars

\* C4 witness: a start was accepted after a counted crash, while that crash's
\* respawn is still pending, and the counter is back at 0.
C4_Witness ==
    /\ status = "STARTING"
    /\ respawnTimers > 0
    /\ crashCount = 0
    /\ Alive # {}

\* the 'status' events among the emitted ones, as the list of their states
RECURSIVE StatusTrail(_)
StatusTrail(ev) ==
    IF ev = <<>> THEN <<>>
    ELSE IF Head(ev).kind = "status"
         THEN <<Head(ev).type>> \o StatusTrail(Tail(ev))
         ELSE StatusTrail(Tail(ev))

\* a list without its immediate repetitions
RECURSIVE Collapse(_)
Collapse(seq) ==
    IF Len(seq) <= 1 THEN seq
    ELSE IF seq[1] = seq[2] THEN Collapse(Tail(seq))
         ELSE <<seq[1]>> \o Collapse(Tail(seq))

\* C5: loadAndStart, in OFFLINE, of an instance without its jar goes
\* OFFLINE -> STARTING -> CRASHED, logs a FATAL entry of type error, spawns no
\* child, never announces ONLINE and arms no control-channel connection.
C5_MissingJarCrashes ==
    \A id \in ServerIds, o \in SpawnOutcomes :
        (status = "OFFLINE" /\ SelectServerOk(Cur, id) /\ ~disk[id].jar) =>
            LET r == LoadAndStartCall(Cur, id, o)
            IN  /\ r.result = "ok"
                /\ Collapse(<<status>> \o StatusTrail(r.emitted))
                      = <<"OFFLINE", "STARTING", "CRASHED">>
                /\ r.status = "CRASHED"
                /\ LogEntry("FATAL: Server jar not found", "error")
                      \in {r.emitted[i] : i \in DOMAIN r.emitted}
                /\ r.procs = procs
                /\ r.process = process
                /\ r.rcon = rcon
                /\ r.rconChains = rconChains

\* C5 witness: the selected instance has no jar, and its start has ended in
\* CRASHED with no child and no crash counted.
C5_Witness ==
    /\ status = "CRASHED"
    /\ config # NoConfig
    /\ disk[config.id].exists /\ ~disk[config.id].jar
    /\ crashCount = 0
    /\ Alive = {} /\ process = 0
    /\ rconChains = EmptyBag

\* C9: a child's exit observed after stop() was called, whatever the exit code,
\* does not set CRASHED, count a crash or schedule a respawn.  Checked for the
\* exit that follows the call at once.
C9_ExitAfterStopIsNoCrash ==
    \A p \in Slots, code \in ExitCodes :
        procs[p] = "alive" =>
            LET s == StopCall(Cur, "stop")
                r == OnClose(s, p, code)
            IN  /\ r.status # "CRASHED"
                /\ r.crashCount = crashCount
                /\ r.respawnTimers = respawnTimers

\* C10: stop() in OFFLINE changes no field of the supervisor and emits no
\* status event and no log entry.
C10_StopOfflineNoOp ==
    status = "OFFLINE" => StopCall(Cur, "stop") = Cur

\* C10 witness: OFFLINE after a run that counted a crash and set the
\* stop-intent flag.
C10_Witness ==
    /\ status = "OFFLINE"
    /\ config # NoConfig
    /\ crashCount > 0
    /\ intentionToStop


\* Whether a handler's result left the instances and the backups as they are.
FilesUntouched(r) == r.disk = disk /\ r.tree = tree /\ r.backups = backups

\* C6: outside OFFLINE, createBackup and restoreBackup throw and leave the
\* working tree and the backups as they are.
C6_BackupNeedsOffline ==
    \A s \in Observable : \A b \in BackupIds, t \in Times :
        s.status # "OFFLINE" =>
            LET c == CreateBackupCall(s, b, t)
                r == RestoreBackupCall(s, b)
            IN  /\ c.result = "throw" /\ FilesUntouched(c)
                /\ r.result = "throw" /\ FilesUntouched(r)

\* C6 witness: the server is ONLINE and the selected instance has a snapshot
\* whose content differs from the working tree.
C6_Witness ==
    /\ status = "ONLINE"
    /\ config # NoConfig
    /\ \E x \in backups[config.id] : x.content.tree # tree[serverDir]
    /\ Cardinality(AllBackups(Cur)) < MaxBackups

\* C7: outside OFFLINE, deleteServer of any existing instance throws
\* and removes neither instance files nor backups.
C7_DeleteNeedsOffline ==
    \A id \in ServerIds, a \in RetentionPolicies : \A l \in Listings(backups[id]) :
        (status # "OFFLINE" /\ disk[id].exists) =>
            LET r == DeleteServerCall(Cur, id, a, l)
            IN  r.result = "throw" /\ FilesUntouched(r)

\* C8: an accepted deleteServer of an instance with N >= 1 snapshots leaves,
\* with KEEP_LATEST, exactly one of them, none of the others being newer; with
\* DELETE_ALL none; with KEEP_ALL all of them.  Snapshots of other instances
\* stay.
C8_Retention ==
    \A id \in ServerIds : \A l \in Listings(backups[id]) :
        (disk[id].exists /\ ~(config.id = id /\ status # "OFFLINE") /\ backups[id] # {}) =>
            LET latest == DeleteServerCall(Cur, id, "KEEP_LATEST", l)
                none == DeleteServerCall(Cur, id, "DELETE_ALL", l)
                all == DeleteServerCall(Cur, id, "KEEP_ALL", l)
            IN  /\ latest.result = "ok" /\ none.result = "ok" /\ all.result = "ok"
                /\ Cardinality(latest.backups[id]) = 1
                /\ latest.backups[id] \subseteq backups[id]
                /\ \A x \in latest.backups[id], y \in backups[id] : x.time >= y.time
                /\ none.backups[id] = {}
                /\ all.backups[id] = backups[id]
                /\ \A j \in ServerIds \ {id} :
                      /\ latest.backups[j] = backups[j]
                      /\ none.backups[j] = backups[j]
                      /\ all.backups[j] = backups[j]

\* C8 witness: an instance that can be deleted has an older and a newer
\* snapshot.
C8_Witness ==
    \E id \in ServerIds :
        /\ disk[id].exists
        /\ ~(config.id = id /\ status # "OFFLINE")
        /\ \E x, y \in backups[id] : x.time < y.time


(***************************************************************************)
(* restart() invoked in ONLINE by a client that issues one command at a    *)
(* time                                                                    *)
(***************************************************************************)
\* restart() has been called and its loadAndStart has not run yet.
RestartRunning ==
    \/ restartTimers > 0
    \/ \E c \in BagToSet(calls) : c.op = "restart"

\* The client starts an instance while no restart and no respawn is pending.
ClientStart(id) ==
    /\ ~RestartRunning
    /\ respawnTimers = 0
    /\ LoadAndStart(id, "ok")

RestartOnline ==
    /\ status = "ONLINE"
    /\ Restart("ok")

\* The exit of a child that was asked to stop.
StoppedChildExits ==
    /\ intentionToStop
    /\ \E p \in Slots, code \in ExitCodes : ProcessClose(p, code)

NextRestart ==
    \/ \E id \in ServerIds : ClientStart(id)
    \/ \E p \in Slots, code \in ExitCodes : ProcessClose(p, code)
    \/ RespawnTimer("ok")
    \/ \E p \in Slots : ReadySignal(p)
    \/ \E c \in ChainStates : RconTimer(c)
    \/ \E c \in ChainStates, ok \in BOOLEAN : RconConnected(c, ok)
    \/ RestartOnline
    \/ \E c \in CallStates : SendDone(c)
    \/ \E c \in CallStates, e \in BOOLEAN : StopPollTick(c, e)
    \/ \E c \in CallStates, e \in BOOLEAN : RestartPollTick(c, e)
    \/ RestartTimer("ok")

\* Timers fire, awaited sends settle, and a child asked to stop exits.
SpecRestart ==
    /\ Init
    /\ [][NextRestart]_vars
    /\ WF_vars(\E c \in CallStates : SendDone(c))
    /\ WF_vars(\E c \in CallStates, e \in BOOLEAN : StopPollTick(c, e))
    /\ WF_vars(\E c \in CallStates, e \in BOOLEAN : RestartPollTick(c, e))
    /\ WF_vars(RestartTimer("ok"))
    /\ WF_vars(StoppedChildExits)

\* C11: once restart() has been called in ONLINE, and given that the old child
\* exits after the stop request, the supervisor reaches STARTING with a new
\* child.
C11_RestartReachesStarting ==
    RestartRunning ~> (status = "STARTING" /\ process # 0 /\ Alive # {})


\* C12: restart() in OFFLINE with a descriptor selected does what
\* loadAndStart(config.id) does: same result, same fields, same events; when
\* accepted, the crash counter is 0, the stop-intent flag is clear, STARTING is
\* announced, RESTARTING and STOPPING are not, no call is suspended, no restart
\* timer is armed and no signal is sent.
C12_RestartOfflineIsStart ==
    \A o \in SpawnOutcomes :
        (status = "OFFLINE" /\ config # NoConfig /\ HasFreeSlot(Cur)) =>
            LET r == RestartCall(Cur, o)
                trail == StatusTrail(r.emitted)
                seen == {trail[i] : i \in DOMAIN trail}
            IN  /\ r = LoadAndStartCall(Cur, config.id, o)
                /\ r.result = "ok" =>
                      /\ r.crashCount = 0
                      /\ ~r.intentionToStop
                      /\ "STARTING" \in seen
                      /\ "RESTARTING" \notin seen /\ "STOPPING" \notin seen
                      /\ r.calls = calls /\ r.restartTimers = restartTimers
                      /\ \A i \in DOMAIN r.emitted : r.emitted[i].kind # "kill"
                      /\ (o = "ok" /\ JarExists(r)) =>
                            (r.status = "STARTING" /\ r.procs[r.process] = "alive")

\* C12 witness: OFFLINE with a selected instance that has its jar, after a
\* counted crash and a stop.
C12_Witness ==
    /\ status = "OFFLINE"
    /\ config # NoConfig
    /\ disk[config.id].exists /\ disk[config.id].jar
    /\ crashCount > 0
    /\ intentionToStop
    /\ HasFreeSlot(Cur)

\* stop(actor) run to its end while the child does not exit: the call, the
\* settling of the awaited send, and the wake-up that finds the 20 waits used up.
StopUntilTimeout(s) ==
    LET a == StopCall(s, "stop")
    IN  IF s.status # "OFFLINE" /\ s.rcon
        THEN LET b == StopPoll(Resume(a, [op |-> "stop", pc |-> "send"]), "stop", FALSE)
             IN  IF b.process # 0
                 THEN StopPoll(Resume(b, [op |-> "stop", pc |-> "stopPoll"]), "stop", TRUE)
                 ELSE b
        ELSE a

\* C13: stop() called with a live child that never exits ends by issuing the
\* forced termination (SIGKILL), with or without a control-channel session.
C13_StopEscalates ==
    (status # "OFFLINE" /\ process # 0 /\ procs[process] = "alive") =>
        LET r == StopUntilTimeout(Cur)
        IN  KillEvent("SIGKILL") \in {r.emitted[i] : i \in DOMAIN r.emitted}


\* C14: the connection attempts that follow one ONLINE transition number at
\* most 5 (a chain at its n-th attempt carries attempts = n - 1).
C14_AtMostFiveAttempts ==
    \A c \in BagToSet(rconChains) : c.pc = "connect" => c.attempts + 1 <= 5

\* C15: the session reference is null whenever the state is OFFLINE or CRASHED.
C15_NoSessionWhenDown ==
    status \in {"OFFLINE", "CRASHED"} => ~rcon


\* C17: a tick of the status poller starts a roster aggregation exactly when
\* the state is ONLINE; the poller is not armed in OFFLINE, CRASHED or
\* STOPPING; and a tick leaves nothing behind (no timer, no suspended call, no
\* changed field), so a failed poll is neither retried nor queued.
C17_PollOnlyOnline ==
    LET r == OnPollTick(Cur)
    IN  /\ status \in {"OFFLINE", "CRASHED", "STOPPING"} => ~statusInterval
        /\ (RosterEvent \in {r.emitted[i] : i \in DOMAIN r.emitted}) <=> (status = "ONLINE")
        /\ [r EXCEPT !.emitted = <<>>] = Cur

\* C17 witness: the poller is armed while the state is no longer ONLINE.
C17_Witness ==
    /\ statusInterval
    /\ status # "ONLINE"


\* C18: whatever the interleaving of pending saveSettings calls and a reader,
\* what the reader reads from the descriptor file is the complete JSON of the
\* old descriptor or of a payload that was saved.
C18_ReaderSeesCompleteFile ==
    /\ Complete(observed)
    /\ Complete(descFile)
    /\ observed.desc \in {OldDesc} \cup Descs

\* C18 witness: the reader has read the result of one save while the next one
\* is half written and the descriptor on disk is still that of the first.
C18_Witness ==
    /\ observed.desc.rev # 0
    /\ savePc = "write"
    /\ tmpFile.len > 0 /\ tmpFile.len < FullLen
    /\ tmpFile.desc # descFile.desc


\* C19: while an instance exists, createServer with any name throws and
\* creates no instance directory.
C19_SecondCreateRejected ==
    \A id \in ServerIds :
        (\E j \in ServerIds : disk[j].exists) =>
            LET r == CreateServerCall(Cur, id)
            IN  r.result = "throw" /\ r.disk = disk


\* C20: with the player lists fixed and no live query (state not ONLINE, or
\* no session), two successive getPlayers calls both return at once, return
\* the same records with the same flags in the same order, and every record
\* returned has its online flag false.
C20_RosterDeterministic ==
    (status # "ONLINE" \/ ~rcon) =>
        LET first == GetPlayersCall(RosterCur)
            second == GetPlayersCall(first)
        IN  /\ first.rosterCalls = rosterCalls
            /\ second.rosterCalls = rosterCalls
            /\ first.returned.called /\ second.returned.called
            /\ second.returned.roster = first.returned.roster
            /\ \A i \in 1..Len(first.returned.roster) :
                  ~first.returned.roster[i].isOnline

\* Reached: with no live query possible, getPlayers has returned a roster of
\* two records with different flags, and a second call returns it again.
C20_Witness ==
    /\ status # "ONLINE" \/ ~rcon
    /\ serverDir # 0
    /\ onlinePlayers = <<>>
    /\ rosterCalls = 0
    /\ returned.called
    /\ returned = GetPlayersCall(RosterCur).returned
    /\ Len(returned.roster) = 2
    /\ returned.roster[1].isBanned /\ ~returned.roster[1].isOp
    /\ returned.roster[2].isOp /\ returned.roster[2].isWhitelisted


\* C21: the text executeCommand returns for a response of the session is the
\* response with every color code (the section sign and a character of
\* 0-9, a-f, k-o, r) removed and everything else unchanged.
C21_ColorCodesStripped ==
    lastReturn.kind = "response" => lastReturn.text = WithoutColorCodes(lastResponse)


Delivered(c) == \E i \in 1..Len(c.emitted) : c.emitted[i] \in {SendEvent, StdinEvent}

\* C30: executeCommand is rejected, with nothing delivered, in every state
\* but ONLINE and STARTING; accepted without a session but with a live
\* child, it writes the command to the child's stdin and succeeds; with
\* neither a session nor a child it throws.
C30_CommandInterfaces ==
    LET c == ExecuteCommandCall(CmdCur)
    IN  /\ status \notin {"ONLINE", "STARTING"} =>
              c.result = "throw" /\ ~Delivered(c) /\ c.cmdCalls = cmdCalls
        /\ status \in {"ONLINE", "STARTING"} /\ ~rcon /\ process \in Alive =>
              /\ c.result = "ok" /\ c.lastReturn.kind = "stdin"
              /\ c.cmdCalls = cmdCalls
              /\ \E i \in 1..Len(c.emitted) : c.emitted[i] = StdinEvent
        /\ status \in {"ONLINE", "STARTING"} /\ ~rcon /\ process = 0 =>
              c.result = "throw" /\ ~Delivered(c)

\* Reached: a command has gone to the stdin of the starting child, which has
\* no session yet.
C30_Witness ==
    /\ status = "STARTING" /\ ~rcon /\ process \in Alive
    /\ lastReturn.kind = "stdin"



Last(seq, n) == SubSeq(seq, Len(seq) - n + 1, Len(seq))

C23_RunningIsDerived ==
    \A s \in Observable :
        /\ GetStatus(s).running <=> s.status \in {"STARTING", "ONLINE", "RESTARTING"}
        /\ GetStatus(s).status = s.status

\* Reached: the child is still alive and held while the state is STOPPING,
\* and getStatus reports not running.
C23_Witness ==
    /\ status = "STOPPING" /\ process \in Alive
    /\ ~GetStatus(Cur).running


\* C24: whatever saveSettings calls are made on the selected instance, the
\* id of the descriptor in memory and the id in the descriptor file stay the
\* id given at creation, the name of the instance directory.
C24_IdNeverChanges ==
    /\ savePc = "idle" /\ config # NoConfig => config.id = serverDir
    /\ Complete(descFile) => descFile.desc.id = serverDir

\* C29: a saveSettings call whose descriptor write failed has left the
\* descriptor file, the properties file and the descriptor in memory as they
\* were before the call.
C29_FailedSaveChangesNothing ==
    saveResult.outcome = "failed" =>
        /\ descFile.desc = saveResult.desc /\ Complete(descFile)
        /\ propsFile = saveResult.props
        /\ config = saveResult.config


SystemUsers == {i \in 1..Len(users) : users[i].role = "system"}

\* C25: after initialization and any registerUser, deleteUser, rotateToken,
\* linkExternal and unlinkExternal calls the user of role 'system' exists, and
\* deleteUser with a query that findUser resolves to it throws and removes
\* nothing.
C25_SystemUserStays ==
    /\ SystemUsers # {}
    /\ \A query \in Queries :
          FindUser(users, query) \in SystemUsers =>
              /\ DeleteUserCall(UsersCur, query).result = "throw"
              /\ DeleteUserCall(UsersCur, query).users = users

\* Reached: every other account has been deleted, the initial admin
\* included, and the system user is what is left.
C25_Witness ==
    /\ Len(users) = 1
    /\ users[1].role = "system"
    /\ nextUuid > 3


\* C26: a readiness line of a live child seen in STOPPING, RESTARTING or
\* CRASHED leaves the state unchanged and starts neither the status poller
\* nor connection attempts.
C26_ReadyOnlyFromStarting ==
    status \in {"STOPPING", "RESTARTING", "CRASHED"} /\ Alive # {} =>
        /\ OnReady(Cur).status = status
        /\ OnReady(Cur).statusInterval = statusInterval
        /\ OnReady(Cur).rconChains = rconChains


\* C27: when a child exits while no stop or restart is under way
\* (intentionToStop is false and the state is not RESTARTING), exit code 0,
\* 130 or 143 gives OFFLINE with the crash counter and the pending respawns
\* as they were, and any other code gives CRASHED with the counter one higher.
C27_ExitCodeDecides ==
    ~intentionToStop /\ status # "RESTARTING" =>
        \A p \in Slots, code \in ExitCodes \cup {SpawnErrCode} :
            CanClose(Cur, p, code) =>
                LET after == OnClose(Cur, p, code)
                IN  IF code \in {0, 130, 143}
                    THEN /\ after.status = "OFFLINE"
                         /\ after.crashCount = crashCount
                         /\ after.respawnTimers = respawnTimers
                    ELSE /\ after.status = "CRASHED"
                         /\ after.crashCount = crashCount + 1

\* Reached: a second crash in a row has been counted, the first having been
\* followed by a respawn.
C27_Witness ==
    /\ status = "CRASHED" /\ ~intentionToStop
    /\ crashCount = 2
    /\ process = 0 /\ Alive = {}


AutoRestartOff == config # NoConfig /\ ~config.autoRestart

\* A step a client asks for: start, stop, restart, and the start that ends a
\* restart.
ManualStep ==
    \/ \E id \in ServerIds, o \in SpawnOutcomes : LoadAndStart(id, o)
    \/ Stop
    \/ \E o \in SpawnOutcomes : Restart(o)
    \/ \E o \in SpawnOutcomes : RestartTimer(o)

\* C28: with auto-restart off in the descriptor no step schedules a respawn,
\* and the state, once CRASHED, stays CRASHED until a client acts.
C28_CrashedUntilManualStart ==
    [][AutoRestartOff =>
          /\ respawnTimers' <= respawnTimers
          /\ status = "CRASHED" /\ process = 0 /\ ~intentionToStop =>
                status' = "CRASHED" \/ ManualStep]_vars


OnlineRecords(roster, name) ==
    {i \in 1..Len(roster) : roster[i].isOnline /\ SameName(roster[i].name, name)}

\* C31: when the answer to the live query lists names, the roster returned
\* holds for every listed name exactly one record marked online; a name
\* that equals, case ignored, the name of a record of the files marks the
\* first such record, any other name has a record of its own whose uuid is
\* the live-only marker and the name; no two records share a uuid.
C31_LiveNamesMarked ==
    rosterCalls > 0 =>
        \A answer \in LiveAnswers :
            answer.ok /\ answer.names # <<>> =>
                LET static == PlayerMap(playerFiles)
                    roster == GetPlayersAnswered(RosterCur, answer).returned.roster
                IN  /\ \A k \in 1..Len(answer.names) :
                          LET name == answer.names[k]
                              i == FirstNamed(static, name)
                          IN  /\ Cardinality(OnlineRecords(roster, name)) = 1
                              /\ \A j \in OnlineRecords(roster, name) :
                                    IF i # 0
                                    THEN roster[j].uuid = static[i].uuid
                                    ELSE /\ roster[j].source = "rcon"
                                         /\ \E n \in LiveNames :
                                               /\ SameName(n, name)
                                               /\ roster[j].uuid = TempId(n)
                                               /\ roster[j].name = n
                    /\ \A a, b \in 1..Len(roster) : roster[a].uuid = roster[b].uuid => a = b
                    /\ Len(roster) >= Len(static)

\* Reached: a roster was returned in which a record of the files, stored
\* under a lower-case name, went online for a name listed in upper case,
\* next to a live-only record and a record of the files that is offline.
C31_Witness ==
    /\ returned.called
    /\ onlinePlayers = <<UpperCase(1), MaxPlayers + 1>>
    /\ Len(returned.roster) = 3
    /\ \E i, j, k \in 1..3 :
          /\ returned.roster[i].isOnline /\ returned.roster[i].name = 1
          /\ returned.roster[i].uuid \in Players
          /\ returned.roster[j].isOnline /\ returned.roster[j].uuid = TempId(MaxPlayers + 1)
          /\ ~returned.roster[k].isOnline /\ SameName(returned.roster[k].name, 1)


\* C32: whenever the state is OFFLINE or CRASHED the manager holds no child
\* handle and no child it spawned is alive.
C32_NoChildWhenDown ==
    status \in {"OFFLINE", "CRASHED"} => process = 0 /\ Alive = {}


NextStop ==
    \/ \E id \in ServerIds : ClientStart(id)
    \/ \E p \in Slots, code \in ExitCodes : ProcessClose(p, code)
    \/ RespawnTimer("ok")
    \/ \E p \in Slots : ReadySignal(p)
    \/ \E c \in ChainStates : RconTimer(c)
    \/ \E c \in ChainStates, ok \in BOOLEAN : RconConnected(c, ok)
    \/ Stop
    \/ \E c \in CallStates : SendDone(c)
    \/ \E c \in CallStates, e \in BOOLEAN : StopPollTick(c, e)

\* Timers fire, awaited sends settle, and a child asked to stop exits.
SpecStop ==
    /\ Init
    /\ [][NextStop]_vars
    /\ WF_vars(\E c \in CallStates : SendDone(c))
    /\ WF_vars(\E c \in CallStates, e \in BOOLEAN : StopPollTick(c, e))
    /\ WF_vars(RespawnTimer("ok"))
    /\ WF_vars(StoppedChildExits)

\* C33: stop() called in any state but OFFLINE sets STOPPING, and from then
\* on, given that a child asked to stop exits, the state becomes OFFLINE;
\* this includes a stop in CRASHED with no child alive.
C33_StopReachesOffline ==
    (status = "STOPPING") ~> (status = "OFFLINE")


RestartCrashed ==
    /\ status = "CRASHED"
    /\ config # NoConfig
    /\ Restart("ok")

NextRecover ==
    \/ \E id \in ServerIds : ClientStart(id)
    \/ \E p \in Slots, code \in ExitCodes : ProcessClose(p, code)
    \/ RespawnTimer("ok")
    \/ \E p \in Slots : ReadySignal(p)
    \/ \E c \in ChainStates : RconTimer(c)
    \/ \E c \in ChainStates, ok \in BOOLEAN : RconConnected(c, ok)
    \/ RestartCrashed
    \/ RestartTimer("ok")

\* Timers fire and a child asked to stop exits.  (In CRASHED, in these
\* behaviors, there is neither a session nor a child, and the stop() of the
\* restart returns without waiting.)
SpecRecover ==
    /\ Init
    /\ [][NextRecover]_vars
    /\ WF_vars(RestartTimer("ok"))
    /\ WF_vars(RespawnTimer("ok"))
    /\ WF_vars(StoppedChildExits)

\* C34: once restart() has been called in CRASHED with a descriptor selected
\* (and the server jar in place), the supervisor reaches STARTING with a new
\* child.
C34_RestartRecovers ==
    (RestartRunning /\ ReachesSpawn(Cur)) ~> (status = "STARTING" /\ process \in Alive)


\* Up to MaxOverlap restart() calls may be suspended, or have their timers
\* pending, at once.
BoundedOverlap(s) ==
    /\ BagCardinality(s.calls) <= MaxOverlap
    /\ s.restartTimers <= MaxOverlap

\* restart() is called again while a restart is under way and the child it
\* stops has not exited yet.
RestartAgain ==
    /\ RestartRunning
    /\ process \in Alive
    /\ status # "OFFLINE"
    /\ BoundedOverlap(RestartCall(Cur, "ok"))
    /\ Commit(RestartCall(Cur, "ok"))

SendDoneOverlap(c) ==
    /\ BagIn(c, calls) /\ c.pc = "send"
    /\ BoundedOverlap(StopPoll(Resume(Cur, c), c.op, FALSE))
    /\ Commit(StopPoll(Resume(Cur, c), c.op, FALSE))

\* A 500 ms wait of stop()'s loop ends; the child exits before the 20th.
StopPollTickOverlap(c) ==
    /\ BagIn(c, calls) /\ c.pc = "stopPoll"
    /\ BoundedOverlap(StopPoll(Resume(Cur, c), c.op, FALSE))
    /\ Commit(StopPoll(Resume(Cur, c), c.op, FALSE))

\* A 500 ms wait of restart()'s loop ends; the child exits before the 20th.
RestartPollTickOverlap(c) ==
    /\ BagIn(c, calls) /\ c.pc = "poll"
    /\ BoundedOverlap(RestartPoll(Resume(Cur, c), FALSE))
    /\ Commit(RestartPoll(Resume(Cur, c), FALSE))

\* Restarts of an instance that is ONLINE, a second one called before the
\* first is over; the child stopped exits in time, and nothing else is asked
\* of the supervisor meanwhile.
NextOverlap ==
    \/ ClientStart(1)
    \/ \E p \in Slots : ProcessClose(p, 0)
    \/ \E p \in Slots : ReadySignal(p)
    \/ \E c \in ChainStates : RconTimer(c)
    \/ \E c \in ChainStates, ok \in BOOLEAN : RconConnected(c, ok)
    \/ RestartOnline
    \/ RestartAgain
    \/ \E c \in CallStates : SendDoneOverlap(c)
    \/ \E c \in CallStates : StopPollTickOverlap(c)
    \/ \E c \in CallStates : RestartPollTickOverlap(c)
    \/ RestartTimer("ok")

SpecOverlap == Init /\ [][NextOverlap]_vars

\* C35: when restart() is called while ONLINE and called again before the
\* first restart is over, one child at most is alive afterwards, and the
\* state is not CRASHED while a child is alive.
C35_OverlappingRestarts ==
    /\ Cardinality(Alive) <= 1
    /\ status = "CRASHED" => Alive = {}


\* C37: a public snapshot taken in any state but ONLINE (getPublicInfo is
\* called by updateState at every change of state, by getPlayers and by
\* clients) reports 0 players online and an empty list.
C37_NoPlayersUnlessOnline ==
    LET info == GetPublicInfo(RosterCur)
    IN  info.status # "ONLINE" =>
            info.players.online = 0 /\ info.players.list = <<>>


\* stop() is called; it is noted when a respawn is pending at that time.
StopNoted ==
    /\ Bounded(StopCall(Cur, "stop"))
    /\ CommitFields(StopCall(Cur, "stop"))
    /\ stopNoted' = (stopNoted \/ (status # "OFFLINE" /\ respawnTimers > 0))

\* The respawn timer fires, and with it the note is over.
RespawnFires ==
    /\ respawnTimers > 0
    /\ ~intentionToStop /\ ReachesSpawn(Cur) => HasFreeSlot(Cur)
    /\ CommitFields(OnRespawnTimer(Cur, "ok"))
    /\ stopNoted' = FALSE

\* A start a client asks for: start, restart in OFFLINE, and the start a
\* restart ends with.
ManualStart ==
    \/ \E id \in ServerIds : LoadAndStart(id, "ok")
    \/ Restart("ok")
    \/ RestartTimer("ok")

NextRespawn ==
    \/ LoadAndStart(1, "ok")
    \/ \E p \in Slots, code \in {0, 1} : ProcessClose(p, code)
    \/ \E p \in Slots : ReadySignal(p)
    \/ RespawnFires
    \/ StopNoted
    \/ Restart("ok")
    \/ \E c \in CallStates, e \in BOOLEAN : RestartPollTick(c, e)
    \/ RestartTimer("ok")

SpecRespawn == Init /\ [][NextRespawn]_vars

Spawned(before, after) == {p \in Slots : before[p] = "none" /\ after[p] # "none"}

\* C38: once stop() has been called while a respawn was pending, the timer
\* of that respawn spawns no child when it fires, and no child is spawned
\* before a start a client asks for is accepted.
C38_StopCancelsRespawn ==
    [][stopNoted =>
          /\ respawnTimers' < respawnTimers => Spawned(procs, procs') = {}
          /\ Spawned(procs, procs') # {} /\ intentionToStop => ManualStart]_vars


\* C36: while a restart() called in ONLINE is under way, up to the start it
\* ends with, the state is never OFFLINE, and createBackup and a start a
\* client asks for are rejected (restoreBackup and deleteServer of the
\* selected instance test the same state).
C36_RestartKeepsGateShut ==
    RestartRunning =>
        /\ status # "OFFLINE"
        /\ \A b \in BackupIds, t \in Times : CreateBackupCall(Cur, b, t).result = "throw"
        /\ \A id \in ServerIds : LoadAndStartCall(Cur, id, "ok").result = "throw"


\* The directory dir itself, or a path below it.
Inside(path, dir) ==
    Len(path) >= Len(dir) /\ SubSeq(path, 1, Len(dir)) = dir

\* C39: validatePath throws or returns the directory of the active instance
\* or a path inside it, never a path in a sibling directory or elsewhere.
C39_PathStaysInside ==
    validated.result = "ok" =>
        Inside(validated.target, Append(ServersDir, validated.active))


\* C40: after initialization and any registerUser, linkExternal,
\* unlinkExternal, deleteUser and rotateToken calls no two users hold the
\* same external id of a provider, so that authenticate with it finds one
\* user at most; and a linkExternal call for a value another user holds
\* throws and changes no user.
C40_ExternalIdsUnique ==
    \A provider \in Providers, value \in ExternalValues :
        /\ Cardinality(Authenticate(users, provider, value)) <= 1
        /\ \A query \in Queries :
              LET user == FindUser(users, query)
                  call == LinkExternalCall(UsersCur, query, provider, value)
              IN  user # 0 /\ Authenticate(users, provider, value) \ {user} # {} =>
                      call.result = "throw" /\ call.users = users

\* Reached: two users hold different ids of the provider, so that a link of
\* either to the id of the other is one that must be rejected.
C40_Witness ==
    \E i, j \in 1..Len(users), provider \in Providers :
        /\ i # j
        /\ users[i].externalIds[provider] = "e1"
        /\ users[j].externalIds[provider] = "e2"
        /\ LinkExternalCall(UsersCur, users[i].id, provider, "e2").result = "throw"

=============================================================================
